---- MODULE Spec2Model ----
(***************************************************************************)
(* Model of the chart utilities of nicegui_scaffold:                       *)
(*   src/src/utils/plotly_dataframe.py  (_deep_merge, _create_trace,       *)
(*                                       dataframe_to_plotly,              *)
(*                                       apply_theme_to_figure)            *)
(*   src/src/utils/plotly_theme.py      (PlotlyTheme.get_colors)           *)
(*   src/src/components/page_layout.py  (ThemeManager.set_dark_mode)       *)
(*   src/src/utils/plotly_events.py     (PlotlyPoint and the event classes)*)
(*                                                                         *)
(* Python values are tagged records [t |-> tag, v |-> payload]; the tag is *)
(* compared first, so values of different Python types are simply unequal. *)
(* A dict is a mutable object: it lives in the heap (a sequence of         *)
(* objects, the address is the index) and is held by reference, so that    *)
(* copying, aliasing and mutation are what the code makes them.            *)
(***************************************************************************)
EXTENDS Integers, Sequences, FiniteSets, TLC

VARIABLES
    pc,         \* position of the one (single-threaded) caller
    heap,       \* the dict objects: address -> (key -> cell)
    heap0,      \* the heap as it was when _deep_merge was entered
    base,       \* address of _deep_merge's base argument
    override,   \* address of _deep_merge's override argument
    result,     \* address returned by _deep_merge (0 before the return)
    args,       \* arguments of the call under way
    frame,      \* locals of dataframe_to_plotly when it was left
    outcome,    \* what the last call did: the value returned or the exception raised
    user_storage,   \* app.storage.user of the one user: key -> value
    theme,      \* the PlotlyTheme instance, built once
    last_set,   \* argument of the latest ThemeManager.set_dark_mode call (None: no call yet)
    listeners,  \* the listeners of the Plotly element, in the order of plot.on(...)
    pending,    \* listeners the host has still to invoke for the event being delivered
    calls,      \* callback invocations made by the operation under way, in order
    theme_callbacks,    \* app.storage.client["theme_callbacks"] of every client
    right_drawer,   \* PageLayout.right_drawer of the module-level layout (0: None)
    elements,   \* the ui elements created so far (the id is the index)
    timestamps, \* the live chart's window of timestamps (a deque)
    prices,     \* the live chart's window of prices of every asset (a deque each)
    plot_figure \* the figure the page's plot shows

vars == <<pc, heap, heap0, base, override, result, args, frame, outcome,
          user_storage, theme, last_set, listeners, pending, calls, theme_callbacks,
          right_drawer, elements, timestamps, prices, plot_figure>>

mergeVars == <<heap, heap0, base, override, result>>
themeVars == <<user_storage, theme, last_set>>
dispatchVars == <<listeners, pending, calls>>
pageVars == <<theme_callbacks, right_drawer, elements, timestamps, prices, plot_figure>>
uiVars == <<dispatchVars, pageVars>>

(***************************************************************************)
(* Bounds of the model.                                                    *)
(***************************************************************************)
MaxScalar == 2      \* scalar leaves of the merged dicts are 1..MaxScalar
MaxRows == 2        \* a DataFrame has 0..MaxRows rows
MaxY == 2           \* y_columns lists have 0..MaxY entries
MaxPoints == 2      \* an event payload lists 0..MaxPoints points
MaxListeners == 3   \* at most MaxListeners callbacks are registered on the plot
MaxClients == 2     \* clients (page loads) are 1..MaxClients
MaxCallbacks == 2   \* a client registers at most MaxCallbacks theme callbacks
MaxUpdates == 64    \* the live chart is updated at most MaxUpdates times
MaxPageLoads == 4   \* the drawers page is loaded at most MaxPageLoads times

(***************************************************************************)
(* Python values.                                                          *)
(***************************************************************************)
PyNone == [t |-> "none", v |-> 0]
PyInt(n) == [t |-> "int", v |-> n]
PyBool(b) == [t |-> "bool", v |-> b]
PyStr(s) == [t |-> "str", v |-> s]
PyList(s) == [t |-> "list", v |-> s]
PyDict(f) == [t |-> "dict", v |-> f]      \* a dict by value: key -> value
Ref(a) == [t |-> "ref", v |-> a]        \* a dict by reference: heap address

EmptyDict == [k \in {} |-> PyNone]

\* isinstance(value, dict), for a cell of the heap
IsDict(c) == c.t = "ref"

\* d[k] = c on the dict object at address a
SetItem(h, a, k, c) == [h EXCEPT ![a] = (k :> c) @@ @]

\* The value a heap cell stands for, every nested dict followed.
RECURSIVE Deref(_, _)
Deref(h, c) ==
    IF c.t = "ref"
    THEN PyDict([k \in DOMAIN h[c.v] |-> Deref(h, h[c.v][k])])
    ELSE c

\* Building the dict objects of a dict given by value (a dict display):
\* every nested dict is an object of its own.
RECURSIVE Alloc(_, _), AllocItems(_, _, _, _)
AllocItems(h, d, keys, obj) ==
    IF keys = {} THEN [heap |-> h, obj |-> obj]
    ELSE LET k == CHOOSE x \in keys : TRUE
             sub == IF d[k].t = "dict"
                    THEN Alloc(h, d[k].v)
                    ELSE [heap |-> h, addr |-> 0]
             cell == IF d[k].t = "dict" THEN Ref(sub.addr) ELSE d[k]
         IN AllocItems(sub.heap, d, keys \ {k}, (k :> cell) @@ obj)

Alloc(h, d) ==
    LET r == AllocItems(h, d, DOMAIN d, EmptyDict)
    IN [heap |-> Append(r.heap, r.obj), addr |-> Len(r.heap) + 1]

(***************************************************************************)
(* _deep_merge, plotly_dataframe.py:145-161.                               *)
(***************************************************************************)
\* A bug the copy could have: result = base (no copy), so the loop writes
\* into the caller's dict.
dict_copy_alias(h, a) == [heap |-> h, addr |-> a]

\* A bug the copy could have: result = {} (the keys of base are lost).
dict_copy_empty(h, a) == [heap |-> Append(h, EmptyDict), addr |-> Len(h) + 1]

\* line 155: result = base.copy()  (a shallow copy: a new object, same cells)
dict_copy(h, a) == [heap |-> Append(h, h[a]), addr |-> Len(h) + 1]

RECURSIVE _deep_merge(_, _, _), merge_item(_, _, _, _), merge_items(_, _, _, _)

\* A bug the loop body could have: lists are concatenated instead of
\* replaced.
merge_item_concat(h, res, key, value) ==
    IF key \in DOMAIN h[res] /\ IsDict(h[res][key]) /\ IsDict(value)
    THEN LET m == _deep_merge(h, h[res][key].v, value.v)
         IN SetItem(m.heap, res, key, Ref(m.addr))
    ELSE IF key \in DOMAIN h[res] /\ h[res][key].t = "list" /\ value.t = "list"
    THEN SetItem(h, res, key, PyList(h[res][key].v \o value.v))
    ELSE SetItem(h, res, key, value)

\* lines 157-160: the body of the loop, for one item of override
merge_item(h, res, key, value) ==
    IF key \in DOMAIN h[res] /\ IsDict(h[res][key]) /\ IsDict(value)
    THEN LET m == _deep_merge(h, h[res][key].v, value.v)
         IN SetItem(m.heap, res, key, Ref(m.addr))
    ELSE SetItem(h, res, key, value)

\* line 156: for key, value in override.items().  The items are independent
\* of each other, so the order the keys are taken in does not matter.
merge_items(h, res, ov, keys) ==
    IF keys = {} THEN h
    ELSE LET key == CHOOSE x \in keys : TRUE
         IN merge_items(merge_item(h, res, key, h[ov][key]), res, ov, keys \ {key})

\* lines 155-161
_deep_merge(h, b, o) ==
    LET c == dict_copy(h, b)
    IN [heap |-> merge_items(c.heap, c.addr, o, DOMAIN h[o]), addr |-> c.addr]

\* _deep_merge on two dicts given by value, the result by value
deep_merge_value(b, o) ==
    LET ab == Alloc(<<>>, b)
        ao == Alloc(ab.heap, o)
        m == _deep_merge(ao.heap, ab.addr, ao.addr)
    IN Deref(m.heap, Ref(m.addr)).v

(***************************************************************************)
(* The dicts _deep_merge is called on.                                     *)
(***************************************************************************)
MergeKeys == {"a", "b"}

\* values that are not dicts: scalars and one list
Leaves == {PyInt(n) : n \in 1..MaxScalar} \cup {PyList(<<PyInt(1)>>), PyList(<<PyInt(2)>>)}

\* the dicts over keys with values in vals
DictsOver(keys, vals) ==
    UNION {{PyDict(f) : f \in [ks -> vals]} : ks \in SUBSET keys}

FlatDicts == DictsOver(MergeKeys, Leaves)

\* key "a" holds a leaf or a dict, key "b" a leaf; either may be missing
NestedDicts ==
    {PyDict(fa.v @@ fb.v) :
        fa \in DictsOver({"a"}, Leaves \cup FlatDicts),
        fb \in DictsOver({"b"}, Leaves)}

NoArgs == [fn |-> "none"]
NoFrame == [fn |-> "none"]
NoOutcome == [status |-> "none"]
NoTheme == [cls |-> "none"]

\* the theme and the user's storage play no part
NoThemeState == user_storage = EmptyDict /\ theme = NoTheme /\ last_set = PyNone

\* no page is rendered: no listener, no callback, no element, no data
NoDispatchState == listeners = <<>> /\ pending = <<>> /\ calls = <<>>
NoPageState ==
    /\ theme_callbacks = <<>> /\ right_drawer = 0 /\ elements = <<>>
    /\ timestamps = <<>> /\ prices = EmptyDict /\ plot_figure = PyNone
NoUiState == NoDispatchState /\ NoPageState

\* _deep_merge is about to be called on two dicts; they are two objects, or
\* (aliased) one and the same object.
InitMerge ==
    /\ pc = "call"
    /\ \E b \in NestedDicts, o \in NestedDicts, aliased \in BOOLEAN :
          LET ab == Alloc(<<>>, b.v)
              ao == Alloc(ab.heap, o.v)
          IN IF aliased
             THEN b = o /\ heap = ab.heap /\ base = ab.addr /\ override = ab.addr
             ELSE heap = ao.heap /\ base = ab.addr /\ override = ao.addr
    /\ heap0 = heap
    /\ result = 0
    /\ args = NoArgs /\ frame = NoFrame /\ outcome = NoOutcome
    /\ NoThemeState /\ NoUiState

\* The call merged = _deep_merge(base, override)
DeepMergeCall ==
    /\ pc = "call"
    /\ LET m == _deep_merge(heap, base, override)
       IN heap' = m.heap /\ result' = m.addr
    /\ pc' = "return"
    /\ UNCHANGED <<heap0, base, override, args, frame, outcome, themeVars, uiVars>>

\* The call again = _deep_merge(merged, {}) on the dict just returned
RemergeCall ==
    /\ pc = "return"
    /\ LET empty == Alloc(heap, EmptyDict)
           m == _deep_merge(empty.heap, result, empty.addr)
       IN /\ heap' = m.heap
          /\ frame' = [fn |-> "_deep_merge", base |-> result, override |-> empty.addr,
                       result |-> m.addr]
    /\ pc' = "remerged"
    /\ UNCHANGED <<heap0, base, override, result, args, outcome, themeVars, uiVars>>

NextMerge == DeepMergeCall \/ RemergeCall

SpecMerge == InitMerge /\ [][NextMerge]_vars

(***************************************************************************)
(* dataframe_to_plotly and _create_trace, plotly_dataframe.py:15-142.      *)
(* A DataFrame is its columns: column name -> the column's values in row   *)
(* order, every column of the same length.  Column names, trace names and  *)
(* chart types are strings; the cells and the figure are Python values,    *)
(* dicts by value (the figure is built and returned, never shared).        *)
(***************************************************************************)
\* raise ValueError(msg), with what the message names
Raise(msg, detail) ==
    [status |-> "raised", type |-> "ValueError", msg |-> msg, detail |-> detail]

\* Python truthiness of an optional dict argument: None and {} are false
Truthy(d) == d.t = "dict" /\ DOMAIN d.v # {}

\* zip(a, b)
Zip(a, b) ==
    [i \in 1..(IF Len(a) < Len(b) THEN Len(a) ELSE Len(b)) |-> <<a[i], b[i]>>]

\* lines 51-52: a single column name becomes a one-element list
normalize_y_columns(y_columns) ==
    IF y_columns.t = "str" THEN <<y_columns.v>> ELSE y_columns.v

\* A bug the validation could have: it stops at the first missing column.
missing_cols_first_only(df, x_column, y_cols) ==
    LET all == SelectSeq(<<x_column>> \o y_cols, LAMBDA c : c \notin DOMAIN df)
    IN IF all = <<>> THEN <<>> ELSE <<Head(all)>>

\* line 55: the requested columns that are not in df.columns, in order
missing_cols(df, x_column, y_cols) ==
    SelectSeq(<<x_column>> \o y_cols, LAMBDA c : c \notin DOMAIN df)

\* A bug the length check could have: < for !=, so that too many names pass.
default_trace_names_too_few_only(trace_names, y_cols) ==
    IF trace_names = PyNone
    THEN [ok |-> TRUE, names |-> y_cols]
    ELSE IF Len(trace_names.v) < Len(y_cols)
    THEN [ok |-> FALSE,
          exc |-> Raise("trace_names length must match y_columns length",
                        <<Len(trace_names.v), Len(y_cols)>>)]
    ELSE [ok |-> TRUE, names |-> trace_names.v]

\* lines 60-63: the default of trace_names and its length check
default_trace_names(trace_names, y_cols) ==
    IF trace_names = PyNone
    THEN [ok |-> TRUE, names |-> y_cols]
    ELSE IF Len(trace_names.v) # Len(y_cols)
    THEN [ok |-> FALSE,
          exc |-> Raise("trace_names length must match y_columns length",
                        <<Len(trace_names.v), Len(y_cols)>>)]
    ELSE [ok |-> TRUE, names |-> trace_names.v]

\* lines 66 and 71: df[column].tolist()
tolist(df, column) == PyList(df[column])

\* A bug the chart type's fields could have: a line chart drawn with markers
\* too, and a bar chart given a mode.
chart_type_fields_markers(chart_type) ==
    CASE chart_type = "bar" -> [type |-> PyStr("bar"), mode |-> PyStr("markers")]
      [] chart_type = "line" ->
            [type |-> PyStr("scatter"), mode |-> PyStr("lines+markers"),
             line |-> PyDict([width |-> PyInt(2)])]
      [] chart_type = "scatter" ->
            [type |-> PyStr("scatter"), mode |-> PyStr("markers"),
             marker |-> PyDict([size |-> PyInt(10)])]

\* lines 125-136: the fields the chart type adds to a trace
chart_type_fields(chart_type) ==
    CASE chart_type = "bar" -> [type |-> PyStr("bar")]
      [] chart_type = "line" ->
            [type |-> PyStr("scatter"), mode |-> PyStr("lines"),
             line |-> PyDict([width |-> PyInt(2)])]
      [] chart_type = "scatter" ->
            [type |-> PyStr("scatter"), mode |-> PyStr("markers"),
             marker |-> PyDict([size |-> PyInt(10)])]

\* A bug the merge of extra_options could have: trace.update(extra_options),
\* which replaces a nested dict instead of merging into it.
merge_extra_options_shallow(trace, extra_options) ==
    IF Truthy(extra_options) THEN extra_options.v @@ trace ELSE trace

\* lines 139-140: extra_options merged over the trace
merge_extra_options(trace, extra_options) ==
    IF Truthy(extra_options) THEN deep_merge_value(trace, extra_options.v) ELSE trace

\* lines 119-142
_create_trace(x_values, y_values, name, chart_type, extra_options) ==
    LET trace == [x |-> x_values, y |-> y_values, name |-> PyStr(name)]
    IN IF chart_type \notin {"bar", "line", "scatter"}
       THEN [ok |-> FALSE, exc |-> Raise("Unsupported chart_type", chart_type)]
       ELSE [ok |-> TRUE,
             trace |-> merge_extra_options(chart_type_fields(chart_type) @@ trace,
                                           extra_options)]

\* A bug the loop could have: traces.insert(0, trace), newest trace first.
RECURSIVE build_traces_newest_first(_, _, _, _, _, _)
build_traces_newest_first(df, x_values, pairs, chart_type, trace_options, traces) ==
    IF pairs = <<>> THEN [ok |-> TRUE, traces |-> traces]
    ELSE LET t == _create_trace(x_values, tolist(df, Head(pairs)[1]), Head(pairs)[2],
                                chart_type, trace_options)
         IN IF ~t.ok THEN [ok |-> FALSE, exc |-> t.exc, traces |-> traces]
            ELSE build_traces_newest_first(df, x_values, Tail(pairs), chart_type,
                                           trace_options, <<PyDict(t.trace)>> \o traces)

\* lines 69-79: one trace per (y_col, name) pair, in order; an exception of
\* _create_trace leaves the loop
RECURSIVE build_traces(_, _, _, _, _, _)
build_traces(df, x_values, pairs, chart_type, trace_options, traces) ==
    IF pairs = <<>> THEN [ok |-> TRUE, traces |-> traces]
    ELSE LET t == _create_trace(x_values, tolist(df, Head(pairs)[1]), Head(pairs)[2],
                                chart_type, trace_options)
         IN IF ~t.ok THEN [ok |-> FALSE, exc |-> t.exc, traces |-> traces]
            ELSE build_traces(df, x_values, Tail(pairs), chart_type, trace_options,
                              Append(traces, PyDict(t.trace)))

\* A bug the barmode test could have: >= 1 for > 1, so that a single bar
\* trace gets a barmode too.
default_layout_any_bar(chart_type, traces) ==
    LET margins == [margin |-> PyDict([l |-> PyInt(40), r |-> PyInt(20),
                                       t |-> PyInt(40), b |-> PyInt(40)])]
    IN IF chart_type = "bar" /\ Len(traces) >= 1
       THEN [barmode |-> PyStr("group")] @@ margins
       ELSE margins

\* lines 82-88: the layout defaults
default_layout(chart_type, traces) ==
    LET margins == [margin |-> PyDict([l |-> PyInt(40), r |-> PyInt(20),
                                       t |-> PyInt(40), b |-> PyInt(40)])]
    IN IF chart_type = "bar" /\ Len(traces) > 1
       THEN [barmode |-> PyStr("group")] @@ margins
       ELSE margins

\* A bug the layout merge could have: the arguments swapped, so that the
\* defaults win over the user's layout.
merge_layout_defaults_win(defaults, layout) ==
    IF Truthy(layout) THEN deep_merge_value(layout.v, defaults) ELSE defaults

\* lines 91-92: the user's layout merged over the defaults
merge_layout(defaults, layout) ==
    IF Truthy(layout) THEN deep_merge_value(defaults, layout.v) ELSE defaults

\* lines 50-97: the locals when the function is left, and what it did
dataframe_to_plotly(df, x_column, y_columns, chart_type, layout, trace_names, trace_options) ==
    LET y_cols == normalize_y_columns(y_columns)
        missing == missing_cols(df, x_column, y_cols)
        names == default_trace_names(trace_names, y_cols)
        x_values == tolist(df, x_column)
        built == build_traces(df, x_values, Zip(y_cols, names.names), chart_type,
                              trace_options, <<>>)
        defaults == default_layout(chart_type, built.traces)
    IN IF missing # <<>>
       THEN [frame |-> [y_columns |-> y_cols, missing_cols |-> missing],
             outcome |-> Raise("Columns not found in DataFrame", missing)]
       ELSE IF ~names.ok
       THEN [frame |-> [y_columns |-> y_cols, missing_cols |-> missing],
             outcome |-> names.exc]
       ELSE IF ~built.ok
       THEN [frame |-> [y_columns |-> y_cols, missing_cols |-> missing,
                        trace_names |-> names.names, x_values |-> x_values,
                        traces |-> built.traces],
             outcome |-> built.exc]
       ELSE [frame |-> [y_columns |-> y_cols, missing_cols |-> missing,
                        trace_names |-> names.names, x_values |-> x_values,
                        traces |-> built.traces, default_layout |-> defaults],
             outcome |-> [status |-> "returned",
                          data |-> built.traces,
                          layout |-> PyDict(merge_layout(defaults, layout))]]

(***************************************************************************)
(* The calls of dataframe_to_plotly.                                       *)
(***************************************************************************)
ColumnNames == <<"month", "sales", "revenue">>

\* the cell of a column at a row: different in every column and row
Cell(column, row) ==
    PyInt(10 * (CHOOSE j \in 1..Len(ColumnNames) : ColumnNames[j] = column) + row)

ColumnSets == {{"month", "sales", "revenue"}, {"month", "sales"}, {"sales", "revenue"}}

DataFrames ==
    {[c \in cols |-> [row \in 1..n |-> Cell(c, row)]] :
        cols \in ColumnSets, n \in 0..MaxRows}

SeqsUpTo(S, n) == UNION {[1..m -> S] : m \in 0..n}

XColumns == {"month", "bogus"}
YColumns ==
    {PyStr(c) : c \in {"sales", "revenue"}}
        \cup {PyList(s) : s \in SeqsUpTo({"sales", "revenue"}, MaxY)}

ChartTypes == {"bar", "line", "scatter", "pie"}

Layouts ==
    { PyNone,
      PyDict(EmptyDict),
      PyDict([barmode |-> PyStr("stack")]),
      PyDict([margin |-> PyDict([l |-> PyInt(0)]), title |-> PyStr("T")]),
      PyDict([margin |-> PyInt(0)]) }

TraceLabels == <<"T1", "T2", "T3", "T4", "T5">>
TraceNames ==
    {PyNone} \cup {PyList(SubSeq(TraceLabels, 1, m)) : m \in 0..(MaxY + 1)}

TraceOptions ==
    { PyNone,
      PyDict(EmptyDict),
      PyDict([marker |-> PyDict([color |-> PyStr("red")]), mode |-> PyStr("lines+markers")]),
      PyDict([name |-> PyStr("Z"), line |-> PyDict([dash |-> PyStr("dot")])]),
      PyDict([x |-> PyList(<<PyInt(0)>>)]) }

InitFigure ==
    /\ pc = "call"
    /\ args \in [df : DataFrames, x_column : XColumns, y_columns : YColumns,
                 chart_type : ChartTypes, layout : Layouts,
                 trace_names : TraceNames, trace_options : TraceOptions]
    /\ frame = NoFrame /\ outcome = NoOutcome
    /\ heap = <<>> /\ heap0 = <<>> /\ base = 0 /\ override = 0 /\ result = 0
    /\ NoThemeState /\ NoUiState

\* The call fig = dataframe_to_plotly(df, x_column, y_columns, chart_type,
\* layout, trace_names, trace_options)
DataframeToPlotlyCall ==
    /\ pc = "call"
    /\ LET r == dataframe_to_plotly(args.df, args.x_column, args.y_columns,
                                    args.chart_type, args.layout, args.trace_names,
                                    args.trace_options)
       IN frame' = r.frame /\ outcome' = r.outcome
    /\ pc' = IF outcome'.status = "returned" THEN "return" ELSE "raise"
    /\ UNCHANGED <<mergeVars, args, themeVars, uiVars>>

NextFigure == DataframeToPlotlyCall

SpecFigure == InitFigure /\ [][NextFigure]_vars

(***************************************************************************)
(* The dark-mode flag and the theme colours:                               *)
(* page_layout.py:35-43 (ThemeManager), plotly_theme.py:27-77.             *)
(***************************************************************************)
\* d.get(key, default) on a dict by value
Get(d, key, default) == IF key \in DOMAIN d THEN d[key] ELSE default

\* page_layout.py:43: app.storage.user["dark_mode"] = value
set_dark_mode(us, value) == ("dark_mode" :> PyBool(value)) @@ us

\* A bug is_dark_mode could have: the stored flag is not looked at.
is_dark_mode_default(us) == TRUE

\* plotly_theme.py:65: app.storage.user.get("dark_mode", True)
is_dark_mode(us) == Get(us, "dark_mode", PyBool(TRUE)).v

\* A bug get_colors could have: the text colours of the two modes swapped.
get_colors_text_swapped(th, us) ==
    LET is_dark == is_dark_mode(us)
    IN << IF is_dark THEN th.dark_page_color ELSE th.light_page_color,
          IF is_dark THEN "black" ELSE "white",
          IF is_dark THEN "rgba(255, 255, 255, 0.1)" ELSE "rgba(0, 0, 0, 0.1)" >>

\* plotly_theme.py:73-77: (bg_color, text_color, grid_color)
get_colors(th, us) ==
    LET is_dark == is_dark_mode(us)
    IN << IF is_dark THEN th.dark_page_color ELSE th.light_page_color,
          IF is_dark THEN "white" ELSE "black",
          IF is_dark THEN "rgba(255, 255, 255, 0.1)" ELSE "rgba(0, 0, 0, 0.1)" >>

\* plotly_theme.py:42-45: PlotlyTheme(dark_page_color, light_page_color, ...)
PlotlyTheme(dark_page_color, light_page_color) ==
    [cls |-> "PlotlyTheme",
     dark_page_color |-> dark_page_color, light_page_color |-> light_page_color,
     primary_color |-> "#22c55e", secondary_color |-> "#3b82f6"]

(***************************************************************************)
(* apply_theme_to_figure, plotly_dataframe.py:164-240.  The figure and its *)
(* layout are dict objects of the heap; titles are None or a string; the   *)
(* trace data is a list, passed on as it is.                               *)
(***************************************************************************)
\* lines 196-218: theme_layout, with the titles that were passed
theme_layout(colors, title, xaxis_title, yaxis_title) ==
    LET axis == [gridcolor |-> PyStr(colors[3]), linecolor |-> PyStr(colors[2]),
                 zerolinecolor |-> PyStr(colors[3])]
        xaxis == IF xaxis_title # PyNone THEN ("title" :> xaxis_title) @@ axis ELSE axis
        yaxis == IF yaxis_title # PyNone THEN ("title" :> yaxis_title) @@ axis ELSE axis
        colored == [plot_bgcolor |-> PyStr(colors[1]), paper_bgcolor |-> PyStr(colors[1]),
                    font |-> PyDict([color |-> PyStr(colors[2])]),
                    xaxis |-> PyDict(xaxis), yaxis |-> PyDict(yaxis)]
    IN IF title # PyNone THEN ("title" :> title) @@ colored ELSE colored

\* A bug the merge could have: the arguments swapped, so that the theme wins
\* over the figure's layout.
merge_theme_layout_theme_wins(h, theme_addr, existing_addr) ==
    _deep_merge(h, existing_addr, theme_addr)

\* A bug the merge could have: the theme's keys are filled into the figure's
\* own layout dict (for k, v in theme_layout.items(): existing.setdefault(k, v)).
merge_theme_layout_in_place(h, theme_addr, existing_addr) ==
    [heap |-> [h EXCEPT ![existing_addr] = @ @@ h[theme_addr]], addr |-> existing_addr]

\* line 223: merged_layout = _deep_merge(theme_layout, existing_layout)
merge_theme_layout(h, theme_addr, existing_addr) ==
    _deep_merge(h, theme_addr, existing_addr)

\* lines 226-227: the title passed overrides the merged one
set_title(h, merged, title) ==
    IF title # PyNone THEN SetItem(h, merged, "title", title) ELSE h

\* lines 228-231 and 232-235: the axis title passed overrides the merged one;
\* item assignment on a merged axis that is no dict is a TypeError
set_axis_title(h, merged, axis, axis_title) ==
    IF axis_title = PyNone THEN [ok |-> TRUE, heap |-> h]
    ELSE LET fresh == Alloc(h, EmptyDict)
             h1 == IF axis \notin DOMAIN h[merged]
                   THEN SetItem(fresh.heap, merged, axis, Ref(fresh.addr))
                   ELSE h
             cell == h1[merged][axis]
         IN IF IsDict(cell)
            THEN [ok |-> TRUE, heap |-> SetItem(h1, cell.v, "title", axis_title)]
            ELSE [ok |-> FALSE, heap |-> h1]

\* line 238: figure.get("data", [])
figure_data(h, figure) == Get(h[figure], "data", PyList(<<>>))

\* lines 192-240: the heap when the function is left, and what it did
apply_theme_to_figure(h, us, th, figure, title, xaxis_title, yaxis_title) ==
    LET colors == get_colors(th, us)
        tl == Alloc(h, theme_layout(colors, title, xaxis_title, yaxis_title))
        empty == Alloc(tl.heap, EmptyDict)
        has_layout == "layout" \in DOMAIN h[figure]
        existing == IF has_layout THEN h[figure]["layout"] ELSE Ref(empty.addr)
        h1 == IF has_layout THEN tl.heap ELSE empty.heap
        merged == merge_theme_layout(h1, tl.addr, existing.v)
        h2 == set_title(merged.heap, merged.addr, title)
        x == set_axis_title(h2, merged.addr, "xaxis", xaxis_title)
        y == set_axis_title(x.heap, merged.addr, "yaxis", yaxis_title)
        out == Alloc(y.heap, EmptyDict)
    IN IF ~IsDict(existing)
       THEN [status |-> "raised", type |-> "AttributeError", heap |-> h1]
       ELSE IF ~x.ok
       THEN [status |-> "raised", type |-> "TypeError", heap |-> x.heap]
       ELSE IF ~y.ok
       THEN [status |-> "raised", type |-> "TypeError", heap |-> y.heap]
       ELSE [status |-> "returned",
             heap |-> [out.heap EXCEPT ![out.addr] =
                          [data |-> figure_data(h, figure), layout |-> Ref(merged.addr)]],
             value |-> Ref(out.addr)]

(***************************************************************************)
(* The theme, its queries and the figures it is applied to.                *)
(***************************************************************************)
Themes == {PlotlyTheme(d, l) : d \in {"#121212", "#1e293b"}, l \in {"white"}}

\* a dict with the key missing, or holding one of vals
OptItem(key, vals) == {EmptyDict} \cup {(key :> v) : v \in vals}

FigureLayouts ==
    {PyDict(t @@ x @@ y @@ f @@ o) :
        t \in OptItem("title", {PyStr("Old"), PyDict([text |-> PyStr("Old")])}),
        x \in OptItem("xaxis", {PyDict(EmptyDict),
                                PyDict([title |-> PyStr("OldX"), gridcolor |-> PyStr("red")]),
                                PyStr("log")}),
        y \in OptItem("yaxis", {PyDict([title |-> PyStr("OldY")])}),
        f \in OptItem("font", {PyDict([size |-> PyInt(12), color |-> PyStr("red")])}),
        o \in {EmptyDict,
               [plot_bgcolor |-> PyStr("pink"),
                margin |-> PyDict([l |-> PyInt(40), r |-> PyInt(20),
                                   t |-> PyInt(40), b |-> PyInt(40)])]}}

FigureData ==
    {PyList(<<>>),
     PyList(<<PyDict([x |-> PyList(<<PyInt(1)>>), y |-> PyList(<<PyInt(2)>>),
                      name |-> PyStr("sales"), type |-> PyStr("bar")])>>)}

Figures ==
    {l @@ d : l \in OptItem("layout", FigureLayouts \cup {PyNone}),
              d \in OptItem("data", FigureData)}

Titles(text) == {PyNone, PyStr(text)}

\* A user with nothing stored yet, one theme, and one figure to decorate.
InitTheme ==
    /\ pc = "idle"
    /\ NoUiState
    /\ user_storage = EmptyDict
    /\ last_set = PyNone
    /\ theme \in Themes
    /\ \E fig \in Figures :
          LET a == Alloc(<<>>, fig)
          IN /\ heap0 = a.heap
             /\ args \in [figure : {a.addr}, title : Titles("T"),
                          xaxis_title : Titles("X"), yaxis_title : Titles("Y")]
    /\ heap = heap0
    /\ base = 0 /\ override = 0 /\ result = 0
    /\ frame = NoFrame /\ outcome = NoOutcome

\* ThemeManager.set_dark_mode(value)
SetDarkMode ==
    /\ \E value \in BOOLEAN :
          /\ user_storage' = set_dark_mode(user_storage, value)
          /\ last_set' = PyBool(value)
    /\ pc' = "set_dark_mode"
    /\ outcome' = NoOutcome
    /\ UNCHANGED <<mergeVars, args, frame, theme, uiVars>>

\* theme.get_colors()
GetColors ==
    /\ outcome' = [status |-> "returned", colors |-> get_colors(theme, user_storage)]
    /\ pc' = "get_colors"
    /\ UNCHANGED <<mergeVars, args, frame, themeVars, uiVars>>

\* apply_theme_to_figure(figure, theme, title, xaxis_title, yaxis_title), on
\* the heap that holds the figure and nothing else
ApplyThemeToFigure ==
    /\ LET r == apply_theme_to_figure(heap0, user_storage, theme, args.figure,
                                      args.title, args.xaxis_title, args.yaxis_title)
       IN /\ heap' = r.heap
          /\ outcome' = IF r.status = "returned"
                        THEN [status |-> "returned", value |-> r.value]
                        ELSE [status |-> "raised", type |-> r.type]
          /\ pc' = IF r.status = "returned" THEN "apply_return" ELSE "apply_raise"
    /\ UNCHANGED <<heap0, base, override, result, args, frame, themeVars, uiVars>>

NextTheme == SetDarkMode \/ GetColors \/ ApplyThemeToFigure

SpecTheme == InitTheme /\ [][NextTheme]_vars

(***************************************************************************)
(* Event parsing, plotly_events.py:42-240.  A raw payload is a value:      *)
(* None, a dict, or something else that reached the handler.  A parse      *)
(* returns an instance (a record named by its class) or raises.            *)
(***************************************************************************)
EventReturned(value) == [status |-> "returned", value |-> value]
EventRaised(type) == [status |-> "raised", type |-> type]

\* bool(value): None, 0, "", [] and {} are false
bool(c) ==
    CASE c.t = "none" -> FALSE
      [] c.t = "bool" -> c.v
      [] c.t = "int" -> c.v # 0
      [] c.t = "str" -> c.v # ""
      [] c.t = "list" -> Len(c.v) > 0
      [] c.t = "dict" -> DOMAIN c.v # {}

\* key in value, for a dict (its keys) or a list (its elements)
contains(c, key) ==
    IF c.t = "dict" THEN key \in DOMAIN c.v
    ELSE \E i \in 1..Len(c.v) : c.v[i] = PyStr(key)

\* A bug from_dict could have: the indices are read under the field names
\* instead of Plotly's keys.
from_dict_field_names(data) ==
    IF data.t # "dict" THEN EventRaised("AttributeError")
    ELSE EventReturned(
        [cls |-> "PlotlyPoint",
         x |-> Get(data.v, "x", PyNone),
         y |-> Get(data.v, "y", PyNone),
         curve_number |-> Get(data.v, "curve_number", PyInt(0)),
         point_number |-> Get(data.v, "point_number", PyInt(0)),
         z |-> Get(data.v, "z", PyNone),
         lat |-> Get(data.v, "lat", PyNone),
         lon |-> Get(data.v, "lon", PyNone),
         text |-> Get(data.v, "text", PyNone),
         customdata |-> Get(data.v, "customdata", PyNone),
         point_numbers |-> Get(data.v, "point_numbers", PyNone)])

\* lines 42-63: PlotlyPoint.from_dict(data); data.get on anything but a dict
\* is an AttributeError
from_dict(data) ==
    IF data.t # "dict" THEN EventRaised("AttributeError")
    ELSE EventReturned(
        [cls |-> "PlotlyPoint",
         x |-> Get(data.v, "x", PyNone),
         y |-> Get(data.v, "y", PyNone),
         curve_number |-> Get(data.v, "curveNumber", PyInt(0)),
         point_number |-> Get(data.v, "pointNumber", PyInt(0)),
         z |-> Get(data.v, "z", PyNone),
         lat |-> Get(data.v, "lat", PyNone),
         lon |-> Get(data.v, "lon", PyNone),
         text |-> Get(data.v, "text", PyNone),
         customdata |-> Get(data.v, "customdata", PyNone),
         point_numbers |-> Get(data.v, "pointNumbers", PyNone)])

\* A bug the comprehension could have: the points come out newest first.
parse_points_reversed(raw) ==
    IF raw.t = "list"
    THEN IF \E i \in 1..Len(raw.v) : raw.v[i].t # "dict"
         THEN EventRaised("AttributeError")
         ELSE EventReturned([i \in 1..Len(raw.v) |->
                                from_dict(raw.v[Len(raw.v) + 1 - i]).value])
    ELSE IF raw.t = "dict"
    THEN IF DOMAIN raw.v = {} THEN EventReturned(<<>>) ELSE EventRaised("AttributeError")
    ELSE EventRaised("TypeError")

\* lines 98, 140, 193: [PlotlyPoint.from_dict(p) for p in args["points"]];
\* iterating None or an int is a TypeError, iterating a dict gives its keys
parse_points(raw) ==
    IF raw.t = "list"
    THEN IF \E i \in 1..Len(raw.v) : raw.v[i].t # "dict"
         THEN EventRaised("AttributeError")
         ELSE EventReturned([i \in 1..Len(raw.v) |-> from_dict(raw.v[i]).value])
    ELSE IF raw.t = "dict"
    THEN IF DOMAIN raw.v = {} THEN EventReturned(<<>>) ELSE EventRaised("AttributeError")
    ELSE EventRaised("TypeError")

\* lines 91-105 and 133-147: PlotlyClickEvent.from_event_args and
\* PlotlyHoverEvent.from_event_args, the same code under two class names;
\* args["points"] on a list is a TypeError
points_from_event_args(cls, a) ==
    IF ~bool(a) \/ ~contains(a, "points")
    THEN EventReturned([cls |-> cls, points |-> <<>>])
    ELSE IF a.t # "dict" THEN EventRaised("TypeError")
    ELSE LET points == parse_points(a.v["points"])
         IN IF points.status = "raised" THEN points
            ELSE EventReturned([cls |-> cls, points |-> points.value])

\* A bug the select parser could have: the guard of the click parser, which
\* returns early when there is no points key.
select_from_event_args_click_guard(a) ==
    IF ~bool(a) \/ ~contains(a, "points")
    THEN EventReturned([cls |-> "PlotlySelectEvent", points |-> <<>>,
                        range |-> PyNone, lassoPoints |-> PyNone])
    ELSE IF a.t # "dict" THEN EventRaised("TypeError")
    ELSE LET points == parse_points(a.v["points"])
         IN IF points.status = "raised" THEN points
            ELSE EventReturned([cls |-> "PlotlySelectEvent", points |-> points.value,
                                range |-> Get(a.v, "range", PyNone),
                                lassoPoints |-> Get(a.v, "lassoPoints", PyNone)])

\* lines 184-205: PlotlySelectEvent.from_event_args; args.get on a list is
\* an AttributeError
select_from_event_args(a) ==
    IF ~bool(a)
    THEN EventReturned([cls |-> "PlotlySelectEvent", points |-> <<>>,
                        range |-> PyNone, lassoPoints |-> PyNone])
    ELSE IF contains(a, "points") /\ a.t # "dict" THEN EventRaised("TypeError")
    ELSE LET points == IF contains(a, "points") THEN parse_points(a.v["points"])
                       ELSE EventReturned(<<>>)
         IN IF points.status = "raised" THEN points
            ELSE IF a.t # "dict" THEN EventRaised("AttributeError")
            ELSE EventReturned([cls |-> "PlotlySelectEvent", points |-> points.value,
                                range |-> Get(a.v, "range", PyNone),
                                lassoPoints |-> Get(a.v, "lassoPoints", PyNone)])

\* lines 179-181: PlotlySelectEvent.is_empty
is_empty(event) == Len(event.points) = 0

\* A bug the legend parser could have: curveNumber read without its default.
legend_from_event_args_no_default(a) ==
    IF ~bool(a)
    THEN EventReturned([cls |-> "PlotlyLegendClickEvent", curve_number |-> PyInt(0),
                        expanded_index |-> PyNone])
    ELSE IF a.t # "dict" THEN EventRaised("AttributeError")
    ELSE EventReturned([cls |-> "PlotlyLegendClickEvent",
                        curve_number |-> Get(a.v, "curveNumber", PyNone),
                        expanded_index |-> Get(a.v, "expandedIndex", PyNone)])

\* lines 224-240: PlotlyLegendClickEvent.from_event_args
legend_from_event_args(a) ==
    IF ~bool(a)
    THEN EventReturned([cls |-> "PlotlyLegendClickEvent", curve_number |-> PyInt(0),
                        expanded_index |-> PyNone])
    ELSE IF a.t # "dict" THEN EventRaised("AttributeError")
    ELSE EventReturned([cls |-> "PlotlyLegendClickEvent",
                        curve_number |-> Get(a.v, "curveNumber", PyInt(0)),
                        expanded_index |-> Get(a.v, "expandedIndex", PyNone)])

(***************************************************************************)
(* The payloads that reach the parsers, and the handlers of                *)
(* PlotlyEventHandler (plotly_events.py:269-460) that call them.           *)
(***************************************************************************)
\* The keys from_dict reads, one key it does not read, and a value for each.
PointKeys == {"x", "y", "curveNumber", "pointNumber", "z", "lat", "lon", "text",
              "customdata", "pointNumbers"}
PointKeyValue ==
    [x |-> PyInt(1), y |-> PyInt(2), curveNumber |-> PyInt(3), pointNumber |-> PyInt(4),
     z |-> PyInt(5), lat |-> PyInt(6), lon |-> PyInt(7), text |-> PyStr("t"),
     customdata |-> PyList(<<PyStr("c")>>), pointNumbers |-> PyList(<<PyInt(8), PyInt(9)>>),
     bbox |-> PyDict([x0 |-> PyInt(10)])]

\* raw points given to from_dict directly: any choice of keys, and no dict
FromDictInputs ==
    {PyDict([k \in keys |-> PointKeyValue[k]]) : keys \in SUBSET (PointKeys \cup {"bbox"})}
        \cup {PyNone, PyInt(7)}

\* raw points inside an event payload; the last two are malformed: an index
\* that is no integer, and a point that is no mapping
RawPoints ==
    {PyDict([x |-> PyInt(1), y |-> PyInt(2), curveNumber |-> PyInt(0), pointNumber |-> PyInt(0)]),
     PyDict([x |-> PyStr("a"), y |-> PyInt(3), curveNumber |-> PyInt(1), pointNumber |-> PyInt(2),
             text |-> PyStr("t")]),
     PyDict(EmptyDict),
     PyDict([curveNumber |-> PyStr("one"), pointNumber |-> PyNone]),
     PyInt(7)}

\* the points entry of a payload: a list, or None, an int, an empty dict
PointsEntries ==
    {PyList(s) : s \in SeqsUpTo(RawPoints, MaxPoints)}
        \cup {PyNone, PyInt(3), PyDict(EmptyDict)}

Ranges == {PyDict([x |-> PyList(<<PyInt(1), PyInt(2)>>), y |-> PyList(<<PyInt(3), PyInt(4)>>)])}
LassoPoints == {PyDict([x |-> PyList(<<PyInt(1)>>), y |-> PyList(<<PyInt(3)>>)])}

\* payloads that are no dict: nothing sent, and a list
OtherPayloads == {PyNone, PyList(<<PyInt(1)>>), PyList(<<PyStr("points")>>)}

PointPayloads ==
    {PyDict(p @@ e) : p \in OptItem("points", PointsEntries),
                      e \in OptItem("event", {PyStr("click")})}
        \cup OtherPayloads

SelectPayloads ==
    {PyDict(p @@ r @@ l) : p \in OptItem("points", PointsEntries),
                           r \in OptItem("range", Ranges),
                           l \in OptItem("lassoPoints", LassoPoints)}
        \cup OtherPayloads

LegendPayloads ==
    {PyDict(c @@ e @@ o) : c \in OptItem("curveNumber", {PyInt(0), PyInt(2), PyStr("one")}),
                           e \in OptItem("expandedIndex", {PyInt(1), PyNone}),
                           o \in OptItem("points", {PyList(<<>>)})}
        \cup OtherPayloads

ClickEvents == {"plotly_click"}
HoverEvents == {"plotly_hover", "plotly_unhover"}
SelectEvents == {"plotly_selected", "plotly_selecting"}
LegendEvents == {"plotly_legendclick", "plotly_legenddoubleclick"}

\* One event is about to reach its handler, or from_dict its caller's point.
InitEvents ==
    /\ pc = "event"
    /\ \/ args \in [event : {"from_dict"}, payload : FromDictInputs]
       \/ args \in [event : ClickEvents \cup HoverEvents, payload : PointPayloads]
       \/ args \in [event : SelectEvents, payload : SelectPayloads]
       \/ args \in [event : LegendEvents, payload : LegendPayloads]
    /\ frame = NoFrame /\ outcome = NoOutcome
    /\ heap = <<>> /\ heap0 = <<>> /\ base = 0 /\ override = 0 /\ result = 0
    /\ NoThemeState /\ NoUiState

\* what a handler leaves: the parsed event given to the callback, or the
\* exception
Handled(parsed) ==
    /\ outcome' = parsed
    /\ pc' = "handled"
    /\ UNCHANGED <<mergeVars, args, frame, themeVars, uiVars>>

\* PlotlyPoint.from_dict(data)
FromDict ==
    /\ pc = "event" /\ args.event = "from_dict"
    /\ Handled(from_dict(args.payload))

\* on_click's handler: PlotlyClickEvent.from_event_args(event.args)
OnClick ==
    /\ pc = "event" /\ args.event \in ClickEvents
    /\ Handled(points_from_event_args("PlotlyClickEvent", args.payload))

\* on_hover's and on_unhover's handler: PlotlyHoverEvent.from_event_args(event.args)
OnHover ==
    /\ pc = "event" /\ args.event \in HoverEvents
    /\ Handled(points_from_event_args("PlotlyHoverEvent", args.payload))

\* on_select's and on_selecting's handler: PlotlySelectEvent.from_event_args(event.args)
OnSelect ==
    /\ pc = "event" /\ args.event \in SelectEvents
    /\ Handled(select_from_event_args(args.payload))

\* on_legend_click's and on_legend_double_click's handler:
\* PlotlyLegendClickEvent.from_event_args(event.args)
OnLegendClick ==
    /\ pc = "event" /\ args.event \in LegendEvents
    /\ Handled(legend_from_event_args(args.payload))

\* lines 76-79, 118-121, 164-167: x_values
x_values(event) == PyList([i \in 1..Len(event.points) |-> event.points[i].x])

\* lines 81-84, 123-126, 169-172: y_values
y_values(event) == PyList([i \in 1..Len(event.points) |-> event.points[i].y])

\* lines 86-89, 128-131: first_point
first_point(event) == IF Len(event.points) > 0 THEN event.points[1] ELSE PyNone

\* lines 174-177: point_count
point_count(event) == PyInt(Len(event.points))

\* the properties each event class defines (lines 66-89, 108-131, 150-182)
properties(cls) ==
    CASE cls = "PlotlyClickEvent" -> {"x_values", "y_values", "first_point"}
      [] cls = "PlotlyHoverEvent" -> {"x_values", "y_values", "first_point"}
      [] cls = "PlotlySelectEvent" -> {"x_values", "y_values", "point_count", "is_empty"}

\* event.<name>: the property computed from the points, or an AttributeError
\* when the class has no such property
getattr(event, name) ==
    IF name \notin properties(event.cls) THEN EventRaised("AttributeError")
    ELSE CASE name = "x_values" -> EventReturned(x_values(event))
           [] name = "y_values" -> EventReturned(y_values(event))
           [] name = "first_point" -> EventReturned(first_point(event))
           [] name = "point_count" -> EventReturned(point_count(event))
           [] name = "is_empty" -> EventReturned(PyBool(is_empty(event)))

Accessors == {"x_values", "y_values", "first_point", "point_count", "is_empty"}

\* A callback reads one derived property of the event it was given.
GetAttr ==
    /\ pc = "handled" /\ outcome.status = "returned"
    /\ args.event \in ClickEvents \cup HoverEvents \cup SelectEvents
    /\ \E name \in Accessors :
          frame' = [fn |-> "getattr", name |-> name, result |-> getattr(outcome.value, name)]
    /\ pc' = "accessed"
    /\ UNCHANGED <<mergeVars, args, outcome, themeVars, uiVars>>

NextEvents == FromDict \/ OnClick \/ OnHover \/ OnSelect \/ OnLegendClick \/ GetAttr

SpecEvents == InitEvents /\ [][NextEvents]_vars

(***************************************************************************)
(* PlotlyEventHandler, plotly_events.py:243-462: registering callbacks on  *)
(* the plot and what the wrapper of a callback does with an event.  The    *)
(* plot element keeps its listeners in the order of the plot.on calls and  *)
(* the host invokes the listeners of an event's type one after the other;  *)
(* what the host does after a listener raised is not the handler's to say: *)
(* it may go on with the next listener or drop the rest.                   *)
(***************************************************************************)
\* self._plot.on(type, handler): one more listener on the element
plot_on(ls, type, parser, callback) ==
    Append(ls, [type |-> type, parser |-> parser, callback |-> callback])

\* lines 269-289: on_click(callback)
on_click(ls, callback) == plot_on(ls, "plotly_click", "PlotlyClickEvent", callback)

\* lines 291-312: on_hover(callback)
on_hover(ls, callback) == plot_on(ls, "plotly_hover", "PlotlyHoverEvent", callback)

\* lines 336-356: on_select(callback)
on_select(ls, callback) == plot_on(ls, "plotly_selected", "PlotlySelectEvent", callback)

\* <Class>.from_event_args(event.args), by the class the handler names
from_event_args(parser, a) ==
    IF parser = "PlotlySelectEvent" THEN select_from_event_args(a)
    ELSE points_from_event_args(parser, a)

\* A bug the wrapper could have: the raw event.args passed on unparsed.
handler_unparsed(l, index, a, raises) ==
    [calls |-> <<[listener |-> index, callback |-> l.callback, event |-> a,
                  raised |-> raises]>>,
     outcome |-> IF raises = "none" THEN [status |-> "returned", listener |-> index]
                 ELSE [status |-> "raised", type |-> raises, listener |-> index]]

\* A bug the wrapper could have: try: callback(parsed) except Exception: pass
handler_swallows(l, index, a, raises) ==
    LET parsed == from_event_args(l.parser, a)
    IN IF parsed.status = "raised"
       THEN [calls |-> <<>>,
             outcome |-> [status |-> "raised", type |-> parsed.type, listener |-> index]]
       ELSE [calls |-> <<[listener |-> index, callback |-> l.callback,
                          event |-> parsed.value, raised |-> raises]>>,
             outcome |-> [status |-> "returned", listener |-> index]]

\* lines 284-286 (and 307-309, 351-353): def handler(event): parsed =
\* <Class>.from_event_args(event.args); callback(parsed).  raises is what
\* the callback does: "none" when it returns, else the exception it raises.
\* The result: the callback invocations made and how the wrapper was left.
handler(l, index, a, raises) ==
    LET parsed == from_event_args(l.parser, a)
    IN IF parsed.status = "raised"
       THEN [calls |-> <<>>,
             outcome |-> [status |-> "raised", type |-> parsed.type, listener |-> index]]
       ELSE [calls |-> <<[listener |-> index, callback |-> l.callback,
                          event |-> parsed.value, raised |-> raises]>>,
             outcome |-> IF raises = "none" THEN [status |-> "returned", listener |-> index]
                         ELSE [status |-> "raised", type |-> raises, listener |-> index]]

Callbacks == {"L1", "L2"}
CallbackExceptions == {"none", "RuntimeError"}
DispatchEvents == {"plotly_click", "plotly_hover", "plotly_selected"}

\* raw payloads of the events delivered: none, one and two points, with a
\* range, and one whose points are no list
DispatchPayloads ==
    {PyNone,
     PyDict([points |-> PyList(<<PyDict([x |-> PyInt(1), y |-> PyInt(2),
                                         curveNumber |-> PyInt(0), pointNumber |-> PyInt(0)])>>)]),
     PyDict([points |-> PyList(<<PyDict([x |-> PyInt(1), y |-> PyInt(2)]),
                                 PyDict([x |-> PyStr("a"), curveNumber |-> PyInt(1)])>>),
             range |-> PyDict([x |-> PyList(<<PyInt(1), PyInt(2)>>)])]),
     PyDict([points |-> PyNone])}

\* the listeners of an event type, by their index, in registration order
RECURSIVE ListenersOf(_, _, _)
ListenersOf(ls, type, from) ==
    IF from > Len(ls) THEN <<>>
    ELSE IF ls[from].type = type THEN <<from>> \o ListenersOf(ls, type, from + 1)
    ELSE ListenersOf(ls, type, from + 1)

\* A plot with a PlotlyEventHandler and no callback registered yet.
InitDispatch ==
    /\ pc = "idle"
    /\ listeners = <<>> /\ pending = <<>> /\ calls = <<>>
    /\ args = NoArgs /\ frame = NoFrame /\ outcome = NoOutcome
    /\ heap = <<>> /\ heap0 = <<>> /\ base = 0 /\ override = 0 /\ result = 0
    /\ NoThemeState /\ NoPageState

\* a registration, made while no event is being delivered
Registering(ls) ==
    /\ listeners' = ls
    /\ pc' = "idle"
    /\ UNCHANGED <<pending, calls, mergeVars, args, frame, outcome, themeVars, pageVars>>

\* handler.on_click(callback)
RegisterClick ==
    /\ pc # "delivering" /\ Len(listeners) < MaxListeners
    /\ \E callback \in Callbacks : Registering(on_click(listeners, callback))

\* handler.on_hover(callback)
RegisterHover ==
    /\ pc # "delivering" /\ Len(listeners) < MaxListeners
    /\ \E callback \in Callbacks : Registering(on_hover(listeners, callback))

\* handler.on_select(callback)
RegisterSelect ==
    /\ pc # "delivering" /\ Len(listeners) < MaxListeners
    /\ \E callback \in Callbacks : Registering(on_select(listeners, callback))

\* One raw event reaches the plot: the host takes the listeners of its type.
\* (later: an event was delivered to the end before this one.)
Deliver ==
    /\ pc # "delivering"
    /\ \E event \in DispatchEvents, payload \in DispatchPayloads :
          /\ args' = [event |-> event, payload |-> payload]
          /\ pending' = ListenersOf(listeners, event, 1)
          /\ pc' = IF pending' = <<>> THEN "delivered" ELSE "delivering"
    /\ calls' = <<>>
    /\ outcome' = NoOutcome
    /\ frame' = [fn |-> "deliver", later |-> (pc = "delivered")]
    /\ UNCHANGED <<listeners, mergeVars, themeVars, pageVars>>

\* The host invokes the next listener's wrapper with the event.
Invoke ==
    /\ pc = "delivering"
    /\ \E raises \in CallbackExceptions :
          LET r == handler(listeners[Head(pending)], Head(pending), args.payload, raises)
          IN /\ calls' = calls \o r.calls
             /\ outcome' = r.outcome
             /\ \/ pending' = Tail(pending)
                \/ r.outcome.status = "raised" /\ pending' = <<>>
    /\ pc' = IF pending' = <<>> THEN "delivered" ELSE "delivering"
    /\ UNCHANGED <<listeners, mergeVars, args, frame, themeVars, pageVars>>

NextDispatch == RegisterClick \/ RegisterHover \/ RegisterSelect \/ Deliver \/ Invoke

SpecDispatch == InitDispatch /\ [][NextDispatch]_vars

(***************************************************************************)
(* The dark-mode switch and the theme callbacks, page_layout.py:28-66 and  *)
(* 169-172.  The clients are page loads of one user: the flag is the       *)
(* user's (app.storage.user), the callback list is the client's            *)
(* (app.storage.client).  A callback is a function of the page; invoking   *)
(* it is logged with the value passed, the flag stored at that moment and  *)
(* the colours the theme gives then.                                       *)
(***************************************************************************)
\* lines 35-38: ThemeManager.get_dark_mode()
get_dark_mode(us) == Get(us, "dark_mode", PyBool(TRUE)).v

\* cb(value), called for a client while the user's storage is us
invoke_callback(client, callback, value, us) ==
    [client |-> client, callback |-> callback, value |-> value,
     stored |-> get_dark_mode(us), colors |-> get_colors(theme, us)]

\* A bug the registration could have: the callback is stored and not called.
on_dark_mode_change_silent(cbs, client, callback, us) ==
    [callbacks |-> Append(cbs, callback), calls |-> <<>>]

\* lines 51-60: ThemeManager.on_dark_mode_change(callback)
on_dark_mode_change(cbs, client, callback, us) ==
    [callbacks |-> Append(cbs, callback),
     calls |-> <<invoke_callback(client, callback, get_dark_mode(us), us)>>]

\* lines 62-66: ThemeManager._notify_callbacks(value)
_notify_callbacks(cbs, client, value, us) ==
    [i \in 1..Len(cbs) |-> invoke_callback(client, cbs[i], value, us)]

\* A bug on_change could have: the callbacks notified before the value is
\* stored.
on_change_notify_first(cbs, client, value, us) ==
    [user_storage |-> set_dark_mode(us, value),
     calls |-> _notify_callbacks(cbs, client, value, us)]

\* lines 169-172: on_change(e) of the dark mode switch, e.value = value
on_change(cbs, client, value, us) ==
    LET stored == set_dark_mode(us, value)
    IN [user_storage |-> stored, calls |-> _notify_callbacks(cbs, client, value, stored)]

Clients == 1..MaxClients
ThemeCallbacks == {"update_chart_themes", "update_chart_theme"}

\* Every client's page is set up (ThemeManager.__init__, lines 31-32); no
\* callback is registered.  frame.registered is the history of the
\* registrations of each client.
InitToggle ==
    /\ pc = "ready"
    /\ user_storage = EmptyDict /\ last_set = PyNone
    /\ theme \in Themes
    /\ theme_callbacks = [c \in Clients |-> <<>>]
    /\ frame = [fn |-> "none", registered |-> [c \in Clients |-> <<>>]]
    /\ calls = <<>> /\ listeners = <<>> /\ pending = <<>>
    /\ right_drawer = 0 /\ elements = <<>>
    /\ timestamps = <<>> /\ prices = EmptyDict /\ plot_figure = PyNone
    /\ args = NoArgs /\ outcome = NoOutcome
    /\ heap = <<>> /\ heap0 = <<>> /\ base = 0 /\ override = 0 /\ result = 0

\* layout.on_dark_mode_change(callback) on a client's page
RegisterCallback ==
    /\ \E client \in Clients, callback \in ThemeCallbacks :
          /\ Len(theme_callbacks[client]) < MaxCallbacks
          /\ LET r == on_dark_mode_change(theme_callbacks[client], client, callback,
                                          user_storage)
             IN /\ theme_callbacks' = [theme_callbacks EXCEPT ![client] = r.callbacks]
                /\ calls' = r.calls
          /\ args' = [client |-> client, callback |-> callback]
          /\ frame' = [frame EXCEPT !.registered[client] = Append(@, callback)]
    /\ pc' = "registered"
    /\ UNCHANGED <<mergeVars, outcome, themeVars, listeners, pending, right_drawer,
                   elements, timestamps, prices, plot_figure>>

\* A client's dark mode switch changes to value.
Toggle ==
    /\ \E client \in Clients, value \in BOOLEAN :
          /\ LET r == on_change(theme_callbacks[client], client, value, user_storage)
             IN /\ user_storage' = r.user_storage
                /\ calls' = r.calls
          /\ last_set' = PyBool(value)
          /\ args' = [client |-> client, value |-> value]
    /\ pc' = "toggled"
    /\ UNCHANGED <<mergeVars, outcome, frame, theme, listeners, pending, pageVars>>

NextToggle == RegisterCallback \/ Toggle

SpecToggle == InitToggle /\ [][NextToggle]_vars

(***************************************************************************)
(* The charts page, plotly_page.py: a click or a selection on the main     *)
(* chart re-renders the derivative chart.  frame holds the locals of the   *)
(* page function (the dataset read at page load), plot_figure what the     *)
(* derivative plot shows: its title and the bars of its one trace.         *)
(***************************************************************************)
\* line 13
DERIVATIVE_CHART_TITLE == "Month Metrics"

\* line 16
METRICS == <<"sales", "revenue", "profit", "visitors">>

\* lines 47-79: create_derivative_figure(month); the row of the month is the
\* first one whose month column equals it
create_derivative_figure(df, month) ==
    LET rows == {i \in 1..Len(df) : month.t = "str" /\ df[i].month = month.v}
        row_data == df[CHOOSE i \in rows : \A j \in rows : i <= j]
    IN IF month = PyNone \/ rows = {}
       THEN [title |-> DERIVATIVE_CHART_TITLE, x |-> <<>>, y |-> <<>>]
       ELSE [title |-> month.v \o " Metrics", x |-> METRICS,
             y |-> [k \in 1..Len(METRICS) |-> row_data[METRICS[k]]]]

\* x in df["month"].values
in_months(df, x) == x.t = "str" /\ \E i \in 1..Len(df) : df[i].month = x.v

\* lines 85-93: handle_click(event); the figure the derivative plot shows
\* when the handler is left, and how it was left
handle_click(df, figure, event) ==
    LET point == first_point(event)
        filtered_df == getattr(event, "filter_dataframe_on_x")
    IN IF filtered_df.status = "raised"
       THEN [status |-> "raised", type |-> filtered_df.type, figure |-> figure]
       ELSE IF point # PyNone /\ in_months(df, point.x)
       THEN [status |-> "returned", figure |-> create_derivative_figure(df, point.x)]
       ELSE [status |-> "returned", figure |-> figure]

\* lines 95-120: handle_select(event)
handle_select(df, figure, event) ==
    LET filtered_df == getattr(event, "filter_dataframe_on_x")
        filtered == getattr(event, "filter_dataframe")
        xs == x_values(event).v
        first_month == IF Len(xs) > 0 THEN xs[1] ELSE PyNone
    IN IF filtered_df.status = "raised"
       THEN [status |-> "raised", type |-> filtered_df.type, figure |-> figure]
       ELSE IF is_empty(event)
       THEN [status |-> "returned", figure |-> create_derivative_figure(df, PyNone)]
       ELSE IF filtered.status = "raised"
       THEN [status |-> "raised", type |-> filtered.type, figure |-> figure]
       ELSE IF in_months(df, first_month)
       THEN [status |-> "returned", figure |-> create_derivative_figure(df, first_month)]
       ELSE [status |-> "returned", figure |-> figure]

\* data/sample_data.csv as read at page load: one row per month
Datasets ==
    LET Row(m, k) == [month |-> m, sales |-> k, revenue |-> k + 1, profit |-> k + 2,
                      visitors |-> k + 3]
    IN {<<Row("Jan", 10)>>,
        <<Row("Jan", 10), Row("Feb", 20)>>,
        <<Row("Feb", 20), Row("Mar", 30)>>,
        <<Row("Jan", 10), Row("Feb", 20), Row("Mar", 30)>>}

\* what the browser sends for a click or a selection on the main chart:
\* points on months of the chart, on a month of no dataset, and without x
ChartPayloads ==
    LET Point(x, n) == PyDict([x |-> x, y |-> PyInt(n), curveNumber |-> PyInt(0),
                               pointNumber |-> PyInt(n)])
        points == {Point(PyStr("Jan"), 0), Point(PyStr("Mar"), 2), Point(PyStr("Dec"), 11),
                   PyDict([curveNumber |-> PyInt(0), pointNumber |-> PyInt(1)])}
    IN {PyDict([points |-> PyList(ps)]) : ps \in SeqsUpTo(points, MaxPoints)} \cup {PyNone}

\* the page as built (lines 145-153): the derivative plot shows the empty
\* figure
InitPlotlyPage ==
    /\ pc = "page"
    /\ \E df \in Datasets :
          /\ frame = [fn |-> "_plotly_page", df |-> df]
          /\ plot_figure = create_derivative_figure(df, PyNone)
    /\ args = NoArgs /\ outcome = NoOutcome
    /\ heap = <<>> /\ heap0 = <<>> /\ base = 0 /\ override = 0 /\ result = 0
    /\ NoThemeState /\ NoDispatchState
    /\ theme_callbacks = <<>> /\ right_drawer = 0 /\ elements = <<>>
    /\ timestamps = <<>> /\ prices = EmptyDict

\* a click on the main chart: the wrapper of on_click parses the payload
\* and calls handle_click
ClickMain ==
    /\ \E a \in ChartPayloads :
          LET parsed == from_event_args("PlotlyClickEvent", a)
              r == handle_click(frame.df, plot_figure, parsed.value)
          IN /\ args' = [fn |-> "handle_click", event |-> a]
             /\ IF parsed.status = "raised"
                THEN outcome' = parsed /\ plot_figure' = plot_figure
                ELSE /\ outcome' = [status |-> r.status,
                                    type |-> IF r.status = "raised" THEN r.type ELSE "none"]
                     /\ plot_figure' = r.figure
    /\ pc' = "clicked"
    /\ UNCHANGED <<mergeVars, frame, themeVars, dispatchVars, theme_callbacks,
                   right_drawer, elements, timestamps, prices>>

\* a selection on the main chart: the wrapper of on_select parses the
\* payload and calls handle_select
SelectMain ==
    /\ \E a \in ChartPayloads :
          LET parsed == from_event_args("PlotlySelectEvent", a)
              r == handle_select(frame.df, plot_figure, parsed.value)
          IN /\ args' = [fn |-> "handle_select", event |-> a]
             /\ IF parsed.status = "raised"
                THEN outcome' = parsed /\ plot_figure' = plot_figure
                ELSE /\ outcome' = [status |-> r.status,
                                    type |-> IF r.status = "raised" THEN r.type ELSE "none"]
                     /\ plot_figure' = r.figure
    /\ pc' = "selected"
    /\ UNCHANGED <<mergeVars, frame, themeVars, dispatchVars, theme_callbacks,
                   right_drawer, elements, timestamps, prices>>

NextPlotlyPage == ClickMain \/ SelectMain

SpecPlotlyPage == InitPlotlyPage /\ [][NextPlotlyPage]_vars

(***************************************************************************)
(* The live chart page, live_chart_page.py: the rolling windows of the     *)
(* timestamps and of each asset's prices, and the figure made of them.     *)
(* An update is identified by its serial number: the clock reads that many *)
(* seconds when it runs and the price it generates for an asset carries    *)
(* the number; the amount of a price plays no part in the windows.         *)
(* frame holds the locals of the page function and the number of updates   *)
(* run so far.                                                             *)
(***************************************************************************)
\* line 17
MAX_DATA_POINTS == 60

\* lines 23-26: the names of the assets, in order
ASSETS == <<"Asset A", "Asset B">>

\* A bug the windows could have: a deque without maxlen.
deque_append_unbounded(d, x) == Append(d, x)

\* lines 36-38: append on a deque(maxlen=MAX_DATA_POINTS); a full deque
\* drops its leftmost entry
deque_append(d, x) ==
    IF Len(d) >= MAX_DATA_POINTS THEN Append(Tail(d), x) ELSE Append(d, x)

\* lines 62-90: create_figure(); a timestamp is shown as "%H:%M:%S"
create_figure(ts, ps) ==
    LET strftime(t) == <<(t \div 3600) % 24, (t \div 60) % 60, t % 60>>
        x_data == [i \in 1..Len(ts) |-> strftime(ts[i])]
    IN [data |-> [k \in 1..Len(ASSETS) |->
                     [x |-> x_data, y |-> ps[ASSETS[k]], name |-> ASSETS[k],
                      yaxis |-> IF k = 1 THEN "y" ELSE "y2"]]]

\* lines 128-138: update_chart() at time now with the prices generated
update_chart(ts, ps, now, new_prices) ==
    LET ts1 == deque_append(ts, now)
        ps1 == [name \in DOMAIN ps |-> deque_append(ps[name], new_prices[name])]
    IN [timestamps |-> ts1, prices |-> ps1, figure |-> create_figure(ts1, ps1)]

\* the page as built (lines 36-41 and 168): empty windows, the plot made
\* from them
InitLive ==
    /\ pc = "page"
    /\ timestamps = <<>>
    /\ prices = [k \in {ASSETS[i] : i \in 1..Len(ASSETS)} |-> <<>>]
    /\ plot_figure = create_figure(timestamps, prices)
    /\ frame = [fn |-> "_live_chart_page", updates |-> 0]
    /\ args = NoArgs /\ outcome = NoOutcome
    /\ heap = <<>> /\ heap0 = <<>> /\ base = 0 /\ override = 0 /\ result = 0
    /\ NoThemeState /\ NoDispatchState
    /\ theme_callbacks = <<>> /\ right_drawer = 0 /\ elements = <<>>

\* line 157: the timer calls update_chart
TimerTick ==
    /\ frame.updates < MaxUpdates
    /\ LET n == frame.updates + 1
           r == update_chart(timestamps, prices, n,
                             [k \in DOMAIN prices |-> [asset |-> k, update |-> n]])
       IN /\ timestamps' = r.timestamps /\ prices' = r.prices /\ plot_figure' = r.figure
          /\ frame' = [frame EXCEPT !.updates = n]
    /\ pc' = "ticked"
    /\ UNCHANGED <<mergeVars, args, outcome, themeVars, dispatchVars, theme_callbacks,
                   right_drawer, elements>>

\* line 161: the Refresh button calls update_chart
Refresh ==
    /\ frame.updates < MaxUpdates
    /\ LET n == frame.updates + 1
           r == update_chart(timestamps, prices, n,
                             [k \in DOMAIN prices |-> [asset |-> k, update |-> n]])
       IN /\ timestamps' = r.timestamps /\ prices' = r.prices /\ plot_figure' = r.figure
          /\ frame' = [frame EXCEPT !.updates = n]
    /\ pc' = "refreshed"
    /\ UNCHANGED <<mergeVars, args, outcome, themeVars, dispatchVars, theme_callbacks,
                   right_drawer, elements>>

NextLive == TimerTick \/ Refresh

SpecLive == InitLive /\ [][NextLive]_vars

(***************************************************************************)
(* The drawers page, drawer_page.py, under its PageLayout decorator        *)
(* (page_layout.py:186-249).  The decorator instance is made once, when    *)
(* the module is imported, and every load of the page runs _setup_layout   *)
(* on it.  A page load is a client of its own; the n-th client's right     *)
(* drawer is elements[n], shown or hidden in that client's browser.        *)
(* right_drawer is the instance's attribute: 0 for None, else the drawer   *)
(* it refers to.                                                           *)
(***************************************************************************)
\* lines 212-218: self.right_drawer = ui.right_drawer(...), created in the
\* client that loads the page; with value=None the browser shows the drawer
\* or not by its width
_setup_layout(els, client, shown) ==
    LET created == Append(els, [kind |-> "right_drawer", client |-> client, shown |-> shown])
    IN [elements |-> created, right_drawer |-> Len(created)]

\* line 141: the decorator as made at import; no page loaded
InitDrawers ==
    /\ pc = "imported"
    /\ right_drawer = 0 /\ elements = <<>>
    /\ args = NoArgs /\ frame = NoFrame /\ outcome = NoOutcome
    /\ heap = <<>> /\ heap0 = <<>> /\ base = 0 /\ override = 0 /\ result = 0
    /\ NoThemeState /\ NoDispatchState
    /\ theme_callbacks = <<>>
    /\ timestamps = <<>> /\ prices = EmptyDict /\ plot_figure = PyNone

\* lines 244-246: wrapper(): self._setup_layout(), then drawers_page(self),
\* which makes the client's floating button
LoadPage ==
    /\ Len(elements) < MaxPageLoads
    /\ \E shown \in BOOLEAN :
          LET r == _setup_layout(elements, Len(elements) + 1, shown)
          IN /\ elements' = r.elements /\ right_drawer' = r.right_drawer
             /\ args' = [fn |-> "wrapper", client |-> Len(elements) + 1]
    /\ frame' = NoFrame
    /\ pc' = "loaded"
    /\ UNCHANGED <<mergeVars, outcome, themeVars, dispatchVars, theme_callbacks,
                   timestamps, prices, plot_figure>>

\* drawer_page.py:20: a client clicks its floating button; the lambda reads
\* layout.right_drawer when it runs and toggles what it finds
ClickFloating ==
    /\ \E client \in 1..Len(elements) :
          /\ args' = [fn |-> "floating", client |-> client]
          /\ IF right_drawer # 0
             THEN /\ elements' = [elements EXCEPT ![right_drawer].shown = ~@]
                  /\ frame' = [fn |-> "toggle", drawer |-> right_drawer]
             ELSE /\ elements' = elements
                  /\ frame' = NoFrame
    /\ pc' = "floating"
    /\ UNCHANGED <<mergeVars, outcome, themeVars, dispatchVars, theme_callbacks,
                   right_drawer, timestamps, prices, plot_figure>>

\* page_layout.py:231-232: a client clicks the toggle button of its header,
\* bound to self.right_drawer.toggle when the page was built
ClickHeader ==
    /\ \E client \in 1..Len(elements) :
          /\ args' = [fn |-> "header", client |-> client]
          /\ elements' = [elements EXCEPT ![client].shown = ~@]
          /\ frame' = [fn |-> "toggle", drawer |-> client]
    /\ pc' = "header"
    /\ UNCHANGED <<mergeVars, outcome, themeVars, dispatchVars, theme_callbacks,
                   right_drawer, timestamps, prices, plot_figure>>

NextDrawers == LoadPage \/ ClickFloating \/ ClickHeader

SpecDrawers == InitDrawers /\ [][NextDrawers]_vars

(***************************************************************************)
(* Claims about _deep_merge.                                               *)
(***************************************************************************)
\* What the arguments and the result of the call stand for.
BaseBefore == Deref(heap0, Ref(base)).v
OverrideBefore == Deref(heap0, Ref(override)).v
Merged == Deref(heap, Ref(result)).v

\* The merge as the contract words it, key by key.
RECURSIVE MergeContract(_, _)
MergeContract(b, o) ==
    [k \in DOMAIN b \cup DOMAIN o |->
        IF k \in DOMAIN b /\ k \in DOMAIN o /\ b[k].t = "dict" /\ o[k].t = "dict"
        THEN PyDict(MergeContract(b[k].v, o[k].v))
        ELSE IF k \in DOMAIN o THEN o[k] ELSE b[k]]

\* C1: _deep_merge(base, override) has the union of both key sets; a key of
\* both whose two values are mappings holds their recursive merge, any other
\* key of override holds override's value (a scalar replaces a mapping and
\* vice versa, a sequence replaces a sequence wholesale), and a key of base
\* alone keeps base's value.
C1_DeepMergeContract ==
    pc = "return" =>
        /\ DOMAIN Merged = DOMAIN BaseBefore \cup DOMAIN OverrideBefore
        /\ Merged = MergeContract(BaseBefore, OverrideBefore)

\* C1 witness: a returned merge where key "a" is a mapping on both sides
\* with a conflicting nested key, and key "b" is a sequence on both sides,
\* the two sequences different.
C1_Witness ==
    /\ pc = "return"
    /\ {"a", "b"} \subseteq DOMAIN BaseBefore \cap DOMAIN OverrideBefore
    /\ BaseBefore["a"].t = "dict" /\ OverrideBefore["a"].t = "dict"
    /\ \E k \in DOMAIN BaseBefore["a"].v \cap DOMAIN OverrideBefore["a"].v :
          BaseBefore["a"].v[k] # OverrideBefore["a"].v[k]
    /\ BaseBefore["b"].t = "list" /\ OverrideBefore["b"].t = "list"
    /\ BaseBefore["b"] # OverrideBefore["b"]
    /\ Merged["b"] = OverrideBefore["b"]

\* C2: the call mutates neither input: every dict object that existed at the
\* call, at any depth, is what it was, and the dict returned is a new object,
\* neither base nor override.
C2_InputsNotMutated ==
    pc = "return" =>
        /\ \A a \in DOMAIN heap0 : heap[a] = heap0[a]
        /\ Deref(heap, Ref(base)) = Deref(heap0, Ref(base))
        /\ Deref(heap, Ref(override)) = Deref(heap0, Ref(override))
        /\ result \notin DOMAIN heap0
        /\ result # base /\ result # override

\* C2 witness: a returned merge that had to write at both depths: override
\* replaces a top-level value of base and a value inside a nested mapping.
C2_Witness ==
    /\ pc = "return"
    /\ {"a", "b"} \subseteq DOMAIN BaseBefore \cap DOMAIN OverrideBefore
    /\ BaseBefore["b"] # OverrideBefore["b"]
    /\ BaseBefore["a"].t = "dict" /\ OverrideBefore["a"].t = "dict"
    /\ \E k \in DOMAIN BaseBefore["a"].v \cap DOMAIN OverrideBefore["a"].v :
          BaseBefore["a"].v[k] # OverrideBefore["a"].v[k]
    /\ Merged # BaseBefore

(***************************************************************************)
(* Claims about dataframe_to_plotly.                                       *)
(***************************************************************************)
Returned == pc = "return" /\ outcome.status = "returned"
RaisedWith(msg) ==
    pc = "raise" /\ outcome.status = "raised" /\ outcome.type = "ValueError"
        /\ outcome.msg = msg

\* yKeys as the contract reads them: a single string is a one-element list
YKeys == IF args.y_columns.t = "str" THEN <<args.y_columns.v>> ELSE args.y_columns.v
RequestedKeys == {args.x_column} \cup {YKeys[i] : i \in 1..Len(YKeys)}
MissingKeys == {c \in RequestedKeys : c \notin DOMAIN args.df}
ColumnsExist == MissingKeys = {}
NamesGiven == args.trace_names # PyNone
NamesValid == NamesGiven => Len(args.trace_names.v) = Len(YKeys)
KindKnown == args.chart_type \in {"bar", "line", "scatter"}
OptionKeys == IF args.trace_options = PyNone THEN {} ELSE DOMAIN args.trace_options.v

\* the x, y and name the contract gives trace i
ContractX == PyList(args.df[args.x_column])
ContractY(i) == PyList(args.df[YKeys[i]])
ContractName(i) == PyStr(IF NamesGiven THEN args.trace_names.v[i] ELSE YKeys[i])

\* C3 as stated: one trace per entry of yKeys, in the order of yKeys; trace i
\* has the xKey column as x, column yKeys[i] as y and traceNames[i] (or
\* yKeys[i] when no traceNames are given) as name.
C3_TracesAsStated ==
    Returned =>
        /\ Len(outcome.data) = Len(YKeys)
        /\ \A i \in 1..Len(YKeys) :
              /\ outcome.data[i].v["x"] = ContractX
              /\ outcome.data[i].v["y"] = ContractY(i)
              /\ outcome.data[i].v["name"] = ContractName(i)

\* x, y or name of trace i: the contract's value, unless trace_options
\* supplies that key
FieldOrOption(key, contract) ==
    IF key \in OptionKeys THEN args.trace_options.v[key] ELSE contract

\* C3 amended: one trace per entry of yKeys, in the order of yKeys; x, y and
\* name of trace i are the xKey column, column yKeys[i] and traceNames[i] (or
\* yKeys[i]), except that a key among x, y, name that traceStyleOverrides
\* supplies holds the override's value.
C3_TracesPerYKey ==
    Returned =>
        /\ Len(outcome.data) = Len(YKeys)
        /\ \A i \in 1..Len(YKeys) :
              /\ outcome.data[i].v["x"] = FieldOrOption("x", ContractX)
              /\ outcome.data[i].v["y"] = FieldOrOption("y", ContractY(i))
              /\ outcome.data[i].v["name"] = FieldOrOption("name", ContractName(i))

\* C3 witness: a figure of two different columns over two rows, with
\* traceNames given and nothing overridden.
C3_Witness ==
    /\ Returned
    /\ Len(YKeys) = 2 /\ YKeys[1] # YKeys[2]
    /\ NamesGiven
    /\ Len(args.df[args.x_column]) = 2
    /\ OptionKeys = {}
    /\ outcome.data[2].v["y"] = ContractY(2)
    /\ outcome.data[2].v["name"] = PyStr("T2")

\* C4: the call fails with the missing-column ValueError exactly when xKey or
\* an entry of yKeys is no column of the dataset; the error names exactly the
\* missing keys and no figure is returned.
C4_MissingColumn ==
    pc # "call" =>
        /\ ~ColumnsExist =>
              /\ RaisedWith("Columns not found in DataFrame")
              /\ {outcome.detail[i] : i \in 1..Len(outcome.detail)} = MissingKeys
              /\ ~Returned
        /\ ColumnsExist => ~RaisedWith("Columns not found in DataFrame")

\* C4 witness: xKey and one of two yKeys are missing, the other yKey exists.
C4_Witness ==
    /\ pc = "raise"
    /\ Len(YKeys) = 2
    /\ args.x_column \in MissingKeys
    /\ YKeys[2] \in MissingKeys
    /\ YKeys[1] \notin MissingKeys
    /\ Len(outcome.detail) = 2

\* C5: with every column present and traceNames given, the call fails with
\* the length-mismatch ValueError if and only if len(traceNames) differs from
\* len(yKeys); without traceNames the trace names are the yKeys values.
C5_LengthMismatch ==
    (pc # "call" /\ ColumnsExist) =>
        /\ NamesGiven =>
              (RaisedWith("trace_names length must match y_columns length")
                  <=> Len(args.trace_names.v) # Len(YKeys))
        /\ ~NamesGiven =>
              /\ ~RaisedWith("trace_names length must match y_columns length")
              /\ frame.trace_names = YKeys
              /\ (Returned /\ "name" \notin OptionKeys) =>
                    \A i \in 1..Len(YKeys) : outcome.data[i].v["name"] = PyStr(YKeys[i])

\* C5 witness: one more trace name than yKeys makes the call fail.
C5_Witness ==
    /\ RaisedWith("trace_names length must match y_columns length")
    /\ ColumnsExist
    /\ Len(YKeys) = 1
    /\ Len(args.trace_names.v) = 2
    /\ outcome.detail = <<2, 1>>

\* C6: with valid columns and traceNames, a chart kind other than "bar",
\* "line" and "scatter" makes the call fail with the unsupported-kind
\* ValueError, whatever the number of yKeys; no figure is returned.
C6_UnsupportedKind ==
    (pc # "call" /\ ColumnsExist /\ NamesValid /\ ~KindKnown) =>
        /\ RaisedWith("Unsupported chart_type")
        /\ ~Returned

LayoutTouchesBarmode == Truthy(args.layout) /\ "barmode" \in DOMAIN args.layout.v

\* C7 as stated: kind "bar" with more than one trace gives
\* layout.barmode == "grouped"; any other kind, or a single trace, gives no
\* barmode key (layoutOverrides not touching barmode).
C7_BarmodeGrouped ==
    (Returned /\ ~LayoutTouchesBarmode) =>
        IF args.chart_type = "bar" /\ Len(outcome.data) > 1
        THEN /\ "barmode" \in DOMAIN outcome.layout.v
             /\ outcome.layout.v["barmode"] = PyStr("grouped")
        ELSE "barmode" \notin DOMAIN outcome.layout.v

\* C7 amended: kind "bar" with more than one trace gives
\* layout.barmode == "group"; any other kind, or a single trace, gives no
\* barmode key, in the default layout and (layoutOverrides not touching
\* barmode) in the layout returned.
C7_BarmodeGroup ==
    (Returned /\ ~LayoutTouchesBarmode) =>
        IF args.chart_type = "bar" /\ Len(outcome.data) > 1
        THEN /\ "barmode" \in DOMAIN outcome.layout.v
             /\ outcome.layout.v["barmode"] = PyStr("group")
             /\ frame.default_layout["barmode"] = PyStr("group")
        ELSE /\ "barmode" \notin DOMAIN outcome.layout.v
             /\ "barmode" \notin DOMAIN frame.default_layout

\* C7 witness: a bar chart of two traces, layoutOverrides given but not
\* touching barmode.
C7_Witness ==
    /\ Returned
    /\ args.chart_type = "bar"
    /\ Len(outcome.data) = 2
    /\ Truthy(args.layout) /\ ~LayoutTouchesBarmode
    /\ outcome.layout.v["barmode"] = PyStr("group")

\* the default layout as the contract words it: uniform margins, plus
\* barmode for a bar chart of more than one trace
ContractDefaults ==
    LET margins == [margin |-> PyDict([l |-> PyInt(40), r |-> PyInt(20),
                                       t |-> PyInt(40), b |-> PyInt(40)])]
    IN IF args.chart_type = "bar" /\ Len(YKeys) > 1
       THEN margins @@ [barmode |-> PyStr("group")]
       ELSE margins

\* C8: the layout returned is the deep merge of the default layout (base)
\* with layoutOverrides (override): the overrides win on conflict, margin
\* sub-keys and barmode included, unmentioned defaults are kept, and with
\* layoutOverrides absent or empty the layout is exactly the default layout.
C8_LayoutMerged ==
    Returned =>
        /\ args.layout = PyNone => outcome.layout.v = ContractDefaults
        /\ args.layout # PyNone =>
              outcome.layout.v = MergeContract(ContractDefaults, args.layout.v)
        /\ ~Truthy(args.layout) => outcome.layout.v = ContractDefaults

\* C8 witness: a bar chart of two traces whose layoutOverrides set one margin
\* sub-key; the other margins and barmode are the defaults.
C8_Witness ==
    /\ Returned
    /\ args.chart_type = "bar" /\ Len(outcome.data) = 2
    /\ Truthy(args.layout)
    /\ "margin" \in DOMAIN args.layout.v
    /\ args.layout.v["margin"] = PyDict([l |-> PyInt(0)])
    /\ outcome.layout.v["margin"] =
          PyDict([l |-> PyInt(0), r |-> PyInt(20), t |-> PyInt(40), b |-> PyInt(40)])
    /\ outcome.layout.v["barmode"] = PyStr("group")

\* the kind-specific base trace of trace i as the contract words it
ContractKindStyle ==
    IF args.chart_type = "bar" THEN [type |-> PyStr("bar")]
    ELSE IF args.chart_type = "line"
    THEN [type |-> PyStr("scatter"), mode |-> PyStr("lines"),
          line |-> PyDict([width |-> PyInt(2)])]
    ELSE [type |-> PyStr("scatter"), mode |-> PyStr("markers"),
          marker |-> PyDict([size |-> PyInt(10)])]

ContractBaseTrace(i) ==
    [x |-> ContractX, y |-> ContractY(i), name |-> ContractName(i)] @@ ContractKindStyle

\* C9: with traceStyleOverrides given, every trace is the deep merge of its
\* kind-specific base trace with traceStyleOverrides: the same overrides on
\* every trace, an override winning over the kind's default of the same key.
C9_TraceOptionsMerged ==
    (Returned /\ args.trace_options # PyNone) =>
        \A i \in 1..Len(outcome.data) :
            outcome.data[i].v = MergeContract(ContractBaseTrace(i), args.trace_options.v)

\* C9 witness: two scatter traces whose overrides replace the default mode
\* and add a colour beside the default marker size.
C9_Witness ==
    /\ Returned
    /\ args.chart_type = "scatter"
    /\ Len(outcome.data) = 2
    /\ {"mode", "marker"} \subseteq OptionKeys
    /\ \A i \in 1..2 :
          /\ outcome.data[i].v["mode"] = PyStr("lines+markers")
          /\ outcome.data[i].v["marker"] =
                PyDict([size |-> PyInt(10), color |-> PyStr("red")])

\* C10: every trace of every figure returned has len(x) == len(y), for every
\* accepted combination of dataset, yKeys, kind, traceNames and
\* traceStyleOverrides.
C10_SameLength ==
    Returned =>
        \A i \in 1..Len(outcome.data) :
            Len(outcome.data[i].v["x"].v) = Len(outcome.data[i].v["y"].v)

(***************************************************************************)
(* Claims about the theme and apply_theme_to_figure.                       *)
(***************************************************************************)
\* The dark flag as the user's storage holds it now (dark when never stored).
DarkFlag ==
    IF "dark_mode" \in DOMAIN user_storage THEN user_storage["dark_mode"].v ELSE TRUE

\* The colours the contract gives for a value of the flag.
ContractColors(flag) ==
    IF flag THEN <<theme.dark_page_color, "white", "rgba(255, 255, 255, 0.1)">>
    ELSE <<theme.light_page_color, "black", "rgba(0, 0, 0, 0.1)">>

\* C11: get_colors returns (background, text colour, grid colour) fixed by
\* the theme's configuration and the current dark flag alone: the dark page
\* colour, "white" and translucent white when the flag is true, the light
\* page colour, "black" and translucent black when it is false.
C11_ColorsPerFlag ==
    pc = "get_colors" => outcome.colors = ContractColors(DarkFlag)

\* C11 witness: get_colors answered while the flag is false, with the light
\* page colour and black text.
C11_Witness ==
    /\ pc = "get_colors"
    /\ ~DarkFlag
    /\ outcome.colors[1] = theme.light_page_color
    /\ outcome.colors[2] = "black"

\* C12: the flag is read at every query: whatever set_dark_mode and
\* get_colors calls came before on the one theme instance, a get_colors
\* result is the one for the value the latest set_dark_mode call passed, or
\* for the default (dark) when there was no such call.
C12_FlagReadAtQuery ==
    pc = "get_colors" =>
        outcome.colors = ContractColors(IF last_set = PyNone THEN TRUE ELSE last_set.v)

\* C12 witness: the theme was built while the flag was dark (the default),
\* set_dark_mode(False) was called later, and the query that follows answers
\* with the light colours.
C12_Witness ==
    /\ pc = "get_colors"
    /\ last_set = PyBool(FALSE)
    /\ outcome.colors = <<theme.light_page_color, "black", "rgba(0, 0, 0, 0.1)">>

\* The figure passed to apply_theme_to_figure and the figure it returned.
ApplyLeft == pc \in {"apply_return", "apply_raise"}
ApplyReturned == pc = "apply_return"
FigureBefore == Deref(heap0, Ref(args.figure)).v
LayoutBefore ==
    IF "layout" \in DOMAIN FigureBefore THEN FigureBefore["layout"].v ELSE EmptyDict
FigureAfter == Deref(heap, outcome.value).v
LayoutAfter == FigureAfter["layout"].v

\* Paths into a layout: <<key>> or <<key, nested key>>.
HasPath(d, p) ==
    /\ p[1] \in DOMAIN d
    /\ Len(p) = 2 => (d[p[1]].t = "dict" /\ p[2] \in DOMAIN d[p[1]].v)
At(d, p) == IF Len(p) = 1 THEN d[p[1]] ELSE d[p[1]].v[p[2]]

\* The keys a layout defines, nested ones included.
LeafPaths(d) ==
    UNION {IF d[k].t = "dict" THEN {<<k, k2>> : k2 \in DOMAIN d[k].v} ELSE {<<k>>} :
           k \in DOMAIN d}

\* The titles passed explicitly, by the path they are written to.
TitlePaths == {<<"title">>, <<"xaxis", "title">>, <<"yaxis", "title">>}
TitleArg(p) ==
    IF p = <<"title">> THEN args.title
    ELSE IF p = <<"xaxis", "title">> THEN args.xaxis_title ELSE args.yaxis_title
PassedTitles == {p \in TitlePaths : TitleArg(p) # PyNone}
IsPassedTitle(p) == p \in PassedTitles \/ <<p[1]>> \in PassedTitles

\* The theme's colours, by the layout key they fill.
ContractThemeLeaves ==
    LET c == ContractColors(DarkFlag)
    IN { <<<<"plot_bgcolor">>, c[1]>>, <<<<"paper_bgcolor">>, c[1]>>,
         <<<<"font", "color">>, c[2]>>,
         <<<<"xaxis", "gridcolor">>, c[3]>>, <<<<"xaxis", "linecolor">>, c[2]>>,
         <<<<"xaxis", "zerolinecolor">>, c[3]>>,
         <<<<"yaxis", "gridcolor">>, c[3]>>, <<<<"yaxis", "linecolor">>, c[2]>>,
         <<<<"yaxis", "zerolinecolor">>, c[3]>> }

\* The figure defines the key at path p, or a value that is no mapping where
\* p would need one.
FigureDefines(p) ==
    \/ HasPath(LayoutBefore, p)
    \/ Len(p) = 2 /\ p[1] \in DOMAIN LayoutBefore /\ LayoutBefore[p[1]].t # "dict"

\* C13: the figure's layout wins over the theme: in the layout returned,
\* every key the figure defines, nested keys under font, xaxis and yaxis
\* included, holds the figure's value unless it is a title passed
\* explicitly, and the theme's colours fill the keys the figure does not
\* define, and only those.
C13_FigureLayoutWins ==
    ApplyReturned =>
        /\ \A p \in LeafPaths(LayoutBefore) :
              ~IsPassedTitle(p) =>
                  HasPath(LayoutAfter, p) /\ At(LayoutAfter, p) = At(LayoutBefore, p)
        /\ \A l \in ContractThemeLeaves :
              ~FigureDefines(l[1]) =>
                  HasPath(LayoutAfter, l[1]) /\ At(LayoutAfter, l[1]) = PyStr(l[2])
        /\ \A p \in LeafPaths(LayoutAfter) :
              \/ HasPath(LayoutBefore, p)
              \/ p \in PassedTitles
              \/ \E l \in ContractThemeLeaves : l[1] = p

\* C13 witness: a themed figure whose own layout set font.color, a font
\* size, an x-axis grid colour and a plot background: all four are kept, and
\* the theme filled paper_bgcolor and the x-axis line colour.
C13_Witness ==
    /\ ApplyReturned
    /\ HasPath(LayoutBefore, <<"font", "color">>)
    /\ HasPath(LayoutBefore, <<"xaxis", "gridcolor">>)
    /\ HasPath(LayoutBefore, <<"plot_bgcolor">>)
    /\ args.title # PyNone
    /\ At(LayoutAfter, <<"font", "color">>) = PyStr("red")
    /\ At(LayoutAfter, <<"font", "size">>) = PyInt(12)
    /\ At(LayoutAfter, <<"xaxis", "gridcolor">>) = PyStr("red")
    /\ At(LayoutAfter, <<"plot_bgcolor">>) = PyStr("pink")
    /\ At(LayoutAfter, <<"paper_bgcolor">>) = PyStr(ContractColors(DarkFlag)[1])
    /\ At(LayoutAfter, <<"xaxis", "linecolor">>) = PyStr(ContractColors(DarkFlag)[2])

\* C14: whatever the figure's layout holds, a call that passes a title, an
\* x-axis title or a y-axis title returns a figure, and in it layout.title,
\* layout.xaxis.title and layout.yaxis.title are the values passed.
C14_PassedTitlesWin ==
    (ApplyLeft /\ PassedTitles # {}) =>
        /\ ApplyReturned
        /\ \A p \in PassedTitles :
              HasPath(LayoutAfter, p) /\ At(LayoutAfter, p) = TitleArg(p)

\* C15: the call returns a new figure and leaves the one passed as it was:
\* the data returned is the data of the figure passed (an empty list when it
\* has none), and every dict object of the figure passed, at any depth, is
\* after the call what it was before, titles re-applied or not.
C15_InputUnchanged ==
    /\ ApplyLeft =>
          /\ \A a \in DOMAIN heap0 : heap[a] = heap0[a]
          /\ Deref(heap, Ref(args.figure)) = Deref(heap0, Ref(args.figure))
    /\ ApplyReturned =>
          /\ outcome.value.v \notin DOMAIN heap0
          /\ FigureAfter["data"] =
                IF "data" \in DOMAIN FigureBefore THEN FigureBefore["data"]
                ELSE PyList(<<>>)

\* C15 witness: a figure with a trace and with titles on both axes of its
\* layout was themed with all three titles passed: the new figure carries
\* the trace and the new titles, the old one still has its own.
C15_Witness ==
    /\ ApplyReturned
    /\ "data" \in DOMAIN FigureBefore /\ Len(FigureBefore["data"].v) = 1
    /\ PassedTitles = TitlePaths
    /\ HasPath(LayoutBefore, <<"xaxis", "title">>)
    /\ HasPath(LayoutBefore, <<"yaxis", "title">>)
    /\ HasPath(LayoutBefore, <<"title">>)
    /\ At(LayoutAfter, <<"xaxis", "title">>) = PyStr("X")
    /\ At(Deref(heap, Ref(args.figure)).v["layout"].v, <<"xaxis", "title">>) = PyStr("OldX")
    /\ FigureAfter["data"] = FigureBefore["data"]

(***************************************************************************)
(* Claims about event parsing.                                             *)
(***************************************************************************)
Handling(events) == pc = "handled" /\ args.event \in events
Parsed == outcome.status = "returned"
PayloadHas(key) == args.payload.t = "dict" /\ key \in DOMAIN args.payload.v

\* The point the contract gives for a raw mapping d: each field under its
\* key, the two indices 0 and every other field None when the key is missing.
ContractPoint(d) ==
    [cls |-> "PlotlyPoint",
     x |-> IF "x" \in DOMAIN d THEN d["x"] ELSE PyNone,
     y |-> IF "y" \in DOMAIN d THEN d["y"] ELSE PyNone,
     z |-> IF "z" \in DOMAIN d THEN d["z"] ELSE PyNone,
     lat |-> IF "lat" \in DOMAIN d THEN d["lat"] ELSE PyNone,
     lon |-> IF "lon" \in DOMAIN d THEN d["lon"] ELSE PyNone,
     text |-> IF "text" \in DOMAIN d THEN d["text"] ELSE PyNone,
     customdata |-> IF "customdata" \in DOMAIN d THEN d["customdata"] ELSE PyNone,
     point_numbers |-> IF "pointNumbers" \in DOMAIN d THEN d["pointNumbers"] ELSE PyNone,
     curve_number |-> IF "curveNumber" \in DOMAIN d THEN d["curveNumber"] ELSE PyInt(0),
     point_number |-> IF "pointNumber" \in DOMAIN d THEN d["pointNumber"] ELSE PyInt(0)]

\* C16: from_dict on a raw point mapping takes each field from its key: x,
\* y, z, lat, lon, text, customdata and pointNumbers give the fields of
\* those names (point_numbers for pointNumbers), None when the key is
\* missing; curve_number is curveNumber and point_number is pointNumber, 0
\* when missing; any other key changes nothing.
C16_FieldsByName ==
    (Handling({"from_dict"}) /\ args.payload.t = "dict") =>
        /\ Parsed
        /\ outcome.value = ContractPoint(args.payload.v)
        /\ outcome.value =
              from_dict(PyDict([k \in DOMAIN args.payload.v \cap PointKeys |->
                                   args.payload.v[k]])).value

\* C16 witness: a raw point with pointNumbers, text and a key from_dict does
\* not read, and without curveNumber, was parsed: curve_number is 0, x is
\* None or the raw x, point_numbers is the raw list.
C16_Witness ==
    /\ Handling({"from_dict"}) /\ Parsed
    /\ {"pointNumbers", "text", "bbox", "pointNumber"} \subseteq DOMAIN args.payload.v
    /\ "curveNumber" \notin DOMAIN args.payload.v
    /\ "x" \notin DOMAIN args.payload.v
    /\ outcome.value.curve_number = PyInt(0)
    /\ outcome.value.point_number = PyInt(4)
    /\ outcome.value.x = PyNone
    /\ outcome.value.point_numbers = PyList(<<PyInt(8), PyInt(9)>>)

\* C17: parsing is total: whatever the event and the raw payload (absent,
\* empty, fields missing, a points entry that is no sequence of mappings, an
\* index that is no integer), the parser returns an event or a point and
\* does not raise, and an index that is no integer becomes the default.
C17_ParsingTotal ==
    pc = "handled" =>
        /\ Parsed
        /\ args.event = "from_dict" =>
              outcome.value.curve_number.t = "int" /\ outcome.value.point_number.t = "int"

\* C18: for click, hover, unhover and select events the parsed event has one
\* point per entry of the payload's points, in the payload's order, each the
\* parse of its raw point; it has no points when there is no payload or no
\* points key.  A payload whose points are a list of mappings is parsed.
C18_PointsInOrder ==
    Handling(ClickEvents \cup HoverEvents \cup SelectEvents) =>
        /\ Parsed =>
              IF PayloadHas("points") /\ args.payload.v["points"].t = "list"
              THEN LET raw == args.payload.v["points"].v
                   IN /\ Len(outcome.value.points) = Len(raw)
                      /\ \A i \in 1..Len(raw) :
                            outcome.value.points[i] = ContractPoint(raw[i].v)
              ELSE outcome.value.points = <<>>
        /\ (args.payload = PyNone \/ (args.payload.t = "dict" /\ ~PayloadHas("points")))
              => Parsed /\ outcome.value.points = <<>>
        /\ ( /\ PayloadHas("points") /\ args.payload.v["points"].t = "list"
             /\ \A i \in 1..Len(args.payload.v["points"].v) :
                   args.payload.v["points"].v[i].t = "dict" ) => Parsed

\* C18 witness: an unhover event with two different raw points was parsed;
\* the first parsed point has the first raw point's x, the second the
\* second's.
C18_Witness ==
    /\ Handling({"plotly_unhover"}) /\ Parsed
    /\ PayloadHas("points")
    /\ Len(outcome.value.points) = 2
    /\ outcome.value.points[1].x = PyInt(1)
    /\ outcome.value.points[2].x = PyStr("a")
    /\ outcome.value.points[2].curve_number = PyInt(1)

\* C19: a parsed select event carries the payload's range and lassoPoints as
\* they are when the payload has them, with a points key or without, and
\* None when it has not; the empty payload gives a select event with no
\* points, is_empty true, and no exception.
C19_RangeCarried ==
    Handling(SelectEvents) =>
        /\ Parsed =>
              /\ outcome.value.range =
                    IF PayloadHas("range") THEN args.payload.v["range"] ELSE PyNone
              /\ outcome.value.lassoPoints =
                    IF PayloadHas("lassoPoints") THEN args.payload.v["lassoPoints"]
                    ELSE PyNone
        /\ (args.payload.t = "dict" /\ ~PayloadHas("points")) => Parsed
        /\ args.payload = PyDict(EmptyDict) =>
              Parsed /\ outcome.value.points = <<>> /\ is_empty(outcome.value)

\* C19 witness: a selecting event whose payload has a range and no points
\* key was parsed: the range is carried, lassoPoints is None, the selection
\* is empty.
C19_Witness ==
    /\ Handling({"plotly_selecting"}) /\ Parsed
    /\ PayloadHas("range") /\ ~PayloadHas("points") /\ ~PayloadHas("lassoPoints")
    /\ outcome.value.range = args.payload.v["range"]
    /\ outcome.value.range # PyNone
    /\ outcome.value.lassoPoints = PyNone
    /\ is_empty(outcome.value)

\* C20: a parsed legend-click or legend-double-click event has curve_number
\* the payload's curveNumber, 0 when there is no payload or no such key, and
\* expanded_index the payload's expandedIndex, None when missing; it has no
\* points.  A payload that is a mapping or absent is parsed.
C20_LegendFields ==
    Handling(LegendEvents) =>
        /\ Parsed =>
              /\ outcome.value.curve_number =
                    IF PayloadHas("curveNumber") THEN args.payload.v["curveNumber"]
                    ELSE PyInt(0)
              /\ outcome.value.expanded_index =
                    IF PayloadHas("expandedIndex") THEN args.payload.v["expandedIndex"]
                    ELSE PyNone
              /\ "points" \notin DOMAIN outcome.value
        /\ args.payload.t \in {"none", "dict"} => Parsed

\* C20 witness: a legend double click whose payload has an expandedIndex, a
\* points key and no curveNumber was parsed: curve_number is 0,
\* expanded_index is the payload's.
C20_Witness ==
    /\ Handling({"plotly_legenddoubleclick"}) /\ Parsed
    /\ PayloadHas("expandedIndex") /\ PayloadHas("points") /\ ~PayloadHas("curveNumber")
    /\ outcome.value.curve_number = PyInt(0)
    /\ outcome.value.expanded_index = PyInt(1)

(***************************************************************************)
(* Claims about re-merging.                                                *)
(***************************************************************************)
Remerged == Deref(heap, Ref(frame.result)).v

\* C25: merging the result of _deep_merge(a, b) once more, with an empty
\* override, changes nothing: _deep_merge(_deep_merge(a, b), {}) equals
\* _deep_merge(a, b), for all mappings a and b.
C25_RemergeIdentity ==
    pc = "remerged" =>
        /\ Remerged = Merged
        /\ Remerged = MergeContract(BaseBefore, OverrideBefore)

\* C25 witness: a merge whose result has a nested mapping under "a" and a
\* sequence under "b", with keys from both sides, was merged again with {}.
C25_Witness ==
    /\ pc = "remerged"
    /\ DOMAIN Merged = {"a", "b"}
    /\ Merged["a"].t = "dict" /\ DOMAIN Merged["a"].v # {}
    /\ Merged["b"].t = "list"
    /\ BaseBefore # OverrideBefore
    /\ DOMAIN heap[frame.override] = {}
    /\ Remerged = Merged

(***************************************************************************)
(* Claims about the style of the traces.                                   *)
(***************************************************************************)
\* the fields of trace i besides x, y and name
StyleFields(i) == DOMAIN outcome.data[i].v \ {"x", "y", "name"}
NoOverrides == args.trace_options \in {PyNone, PyDict(EmptyDict)}

\* C26: without traceStyleOverrides every trace has, besides x, y and name,
\* exactly the fields of its kind: bar has type "bar" and no mode; line has
\* type "scatter", mode "lines" and the fixed line width 2; scatter has type
\* "scatter", mode "markers" and the fixed marker size 10.
C26_KindStyle ==
    (Returned /\ NoOverrides) =>
        \A i \in 1..Len(outcome.data) :
            LET trace == outcome.data[i].v
            IN /\ args.chart_type = "bar" =>
                     /\ StyleFields(i) = {"type"}
                     /\ trace["type"] = PyStr("bar")
               /\ args.chart_type = "line" =>
                     /\ StyleFields(i) = {"type", "mode", "line"}
                     /\ trace["type"] = PyStr("scatter")
                     /\ trace["mode"] = PyStr("lines")
                     /\ trace["line"] = PyDict([width |-> PyInt(2)])
               /\ args.chart_type = "scatter" =>
                     /\ StyleFields(i) = {"type", "mode", "marker"}
                     /\ trace["type"] = PyStr("scatter")
                     /\ trace["mode"] = PyStr("markers")
                     /\ trace["marker"] = PyDict([size |-> PyInt(10)])

\* C26 witness: a line chart of two columns built with no overrides; both
\* traces are scatter traces drawn as lines, and neither has a marker.
C26_Witness ==
    /\ Returned /\ args.trace_options = PyNone
    /\ args.chart_type = "line"
    /\ Len(outcome.data) = 2
    /\ \A i \in 1..2 :
          /\ outcome.data[i].v["mode"] = PyStr("lines")
          /\ "marker" \notin DOMAIN outcome.data[i].v

(***************************************************************************)
(* Claims about the derived accessors.                                     *)
(***************************************************************************)
\* the points of the event whose property was read
EventPoints == outcome.value.points

\* what the contract gives for an accessor
ContractAccessor(name) ==
    CASE name = "x_values" -> PyList([i \in 1..Len(EventPoints) |-> EventPoints[i].x])
      [] name = "y_values" -> PyList([i \in 1..Len(EventPoints) |-> EventPoints[i].y])
      [] name = "first_point" -> IF EventPoints = <<>> THEN PyNone ELSE Head(EventPoints)
      [] name = "point_count" -> PyInt(Len(EventPoints))
      [] name = "is_empty" -> PyBool(Len(EventPoints) = 0)

\* C23: every click, hover, unhover and select event has the accessors
\* x_values and y_values (as long as points and in its order), first_point
\* (the first point, None when there is none), point_count (the number of
\* points) and is_empty (true exactly when point_count is 0), each computed
\* from points when read.
C23_AccessorsOnEveryVariant ==
    pc = "accessed" =>
        /\ frame.result.status = "returned"
        /\ frame.result.value = ContractAccessor(frame.name)

(***************************************************************************)
(* Claims about the dispatch of events to listeners.                       *)
(***************************************************************************)
\* the payload delivered is one the parsers take: absent, or its points a list
PayloadParses ==
    \/ args.payload = PyNone
    \/ /\ args.payload.t = "dict"
       /\ "points" \in DOMAIN args.payload.v => args.payload.v["points"].t = "list"

\* the typed event the contract gives for the payload delivered
ContractEvent(cls) ==
    LET raw == IF PayloadHas("points") THEN args.payload.v["points"].v ELSE <<>>
        points == [i \in 1..Len(raw) |-> ContractPoint(raw[i].v)]
    IN IF cls = "PlotlySelectEvent"
       THEN [cls |-> cls, points |-> points,
             range |-> IF PayloadHas("range") THEN args.payload.v["range"] ELSE PyNone,
             lassoPoints |-> IF PayloadHas("lassoPoints") THEN args.payload.v["lassoPoints"]
                             ELSE PyNone]
       ELSE [cls |-> cls, points |-> points]

ContractClass(type) ==
    CASE type = "plotly_click" -> "PlotlyClickEvent"
      [] type = "plotly_hover" -> "PlotlyHoverEvent"
      [] type = "plotly_selected" -> "PlotlySelectEvent"

\* the registrations for the type of the event delivered, oldest first
RegisteredFor(type) == SelectSeq([i \in 1..Len(listeners) |-> i],
                                 LAMBDA i : listeners[i].type = type)
NoCallRaised == \A i \in 1..Len(calls) : calls[i].raised = "none"

C22_ExceptionPropagates ==
    /\ \A i \in 1..Len(calls) :
          (calls[i].raised # "none" /\ outcome.listener = calls[i].listener) =>
              outcome.status = "raised" /\ outcome.type = calls[i].raised
    /\ \A i, j \in 1..Len(calls) : calls[i].listener = calls[j].listener => i = j
    /\ \A i \in 1..Len(listeners) : DOMAIN listeners[i] = {"type", "parser", "callback"}

\* C22 witness: the second listener of a click raised RuntimeError; the
\* wrapper was left by RuntimeError, after one invocation of each listener.
C22_Witness ==
    /\ pc \in {"delivering", "delivered"}
    /\ Len(calls) = 2
    /\ calls[1].raised = "none"
    /\ calls[2].raised = "RuntimeError"
    /\ outcome = [status |-> "raised", type |-> "RuntimeError", listener |-> calls[2].listener]

(***************************************************************************)
(* Claims about the theme callbacks.                                       *)
(***************************************************************************)
\* C24: a callback registered with on_dark_mode_change is invoked once at
\* once, with the current dark-mode value; after that every toggle of the
\* client invokes the client's callbacks once each, with the new value, in
\* the order they were registered, and nobody else's.
C24_CallbackPerToggle ==
    /\ pc = "registered" =>
          /\ Len(calls) = 1
          /\ calls[1].client = args.client /\ calls[1].callback = args.callback
          /\ calls[1].value = DarkFlag
    /\ pc = "toggled" =>
          LET registered == frame.registered[args.client]
          IN /\ Len(calls) = Len(registered)
             /\ \A i \in 1..Len(calls) :
                   /\ calls[i].client = args.client
                   /\ calls[i].callback = registered[i]
                   /\ calls[i].value = args.value

\* C24 witness: client 1 registered update_chart_theme and then
\* update_chart_themes, client 2 a callback of its own; client 1 switched to
\* light, and its two callbacks ran in that order with False.
C24_Witness ==
    /\ pc = "toggled" /\ args.client = 1 /\ args.value = FALSE
    /\ frame.registered[1] = <<"update_chart_theme", "update_chart_themes">>
    /\ frame.registered[2] # <<>>
    /\ Len(calls) = 2
    /\ calls[1].callback = "update_chart_theme" /\ calls[1].value = FALSE
    /\ calls[2].callback = "update_chart_themes" /\ calls[2].value = FALSE

\* C29: when the switch changes, the new value is stored before a callback
\* is notified: at every callback invocation a toggle causes,
\* get_dark_mode() is the value passed to the callback and get_colors()
\* gives the colours of that value.
C29_StoredBeforeNotified ==
    pc = "toggled" =>
        /\ DarkFlag = args.value
        /\ \A i \in 1..Len(calls) :
              /\ calls[i].stored = calls[i].value
              /\ calls[i].colors = ContractColors(calls[i].value)

\* C29 witness: the flag was dark, a client with a callback switched to
\* light, and the callback saw False stored and the light colours.
C29_Witness ==
    /\ pc = "toggled" /\ args.value = FALSE
    /\ Len(calls) >= 1
    /\ calls[1].stored = FALSE
    /\ calls[1].colors = <<theme.light_page_color, "black", "rgba(0, 0, 0, 0.1)">>

(***************************************************************************)
(* Claims about the charts page.                                           *)
(***************************************************************************)
\* C27: after the click handler ran for a click whose first point has for x
\* a month of the dataset, the derivative chart shows that month's figure,
\* titled "<month> Metrics".
C27_ClickShowsMonth ==
    pc = "clicked" =>
        LET parsed == points_from_event_args("PlotlyClickEvent", args.event)
        IN (/\ parsed.status = "returned"
            /\ Len(parsed.value.points) > 0
            /\ in_months(frame.df, parsed.value.points[1].x))
           => /\ plot_figure.title = parsed.value.points[1].x.v \o " Metrics"
              /\ plot_figure = create_derivative_figure(frame.df, parsed.value.points[1].x)

(***************************************************************************)
(* Claims about the live chart page.                                       *)
(***************************************************************************)
\* C28: after any number of updates, by the timer or the button, the
\* window of timestamps and the window of each asset's prices have the same
\* length, min(number of updates, 60); they hold the latest updates in
\* order, so the entry dropped on overflow is the oldest; and every trace of
\* the figure has as many x as y.
C28_RollingWindows ==
    LET n == frame.updates
        len == IF n < 60 THEN n ELSE 60
    IN /\ Len(timestamps) = len
       /\ \A i \in 1..Len(timestamps) : timestamps[i] = n - len + i
       /\ \A name \in DOMAIN prices :
             /\ Len(prices[name]) = len
             /\ \A i \in 1..Len(prices[name]) : prices[name][i].update = n - len + i
       /\ \A k \in 1..Len(plot_figure.data) :
             /\ Len(plot_figure.data[k].x) = Len(plot_figure.data[k].y)
             /\ Len(plot_figure.data[k].x) = len

\* C28 witness: 62 updates, the last one by the button; the windows hold
\* the updates 3..62.
C28_Witness ==
    /\ pc = "refreshed" /\ frame.updates = 62
    /\ Len(timestamps) = 60 /\ timestamps[1] = 3 /\ timestamps[60] = 62
    /\ Len(prices["Asset B"]) = 60 /\ prices["Asset B"][1].update = 3
    /\ Len(plot_figure.data) = 2 /\ Len(plot_figure.data[2].y) = 60

(***************************************************************************)
(* Claims about the drawers page.                                          *)
(***************************************************************************)
\* C30: whatever the order of the page loads, the floating toggle button of
\* a client toggles the right drawer created for that client's page, never
\* the drawer of another client's later load.
C30_FloatingTogglesOwnDrawer ==
    pc = "floating" =>
        /\ frame.fn = "toggle"
        /\ elements[frame.drawer].client = args.client

====
